---- MODULE Spec2Model ----
(***************************************************************************)
(* x0 network substrate: the event reactor (app-event.c), the asynchronous *)
(* stream built on it (app-stream.c) and the TCP service / Lua console     *)
(* session built on both (app-service.c, app-lua-service.c).               *)
(*                                                                         *)
(* Every C function is an operator from a "world" (a record holding the    *)
(* value of every variable) to the world after the call, so that a         *)
(* callback can call back into the reactor exactly as the C code does.     *)
(* An action takes the current world, applies one handler and commits the  *)
(* result.  Fields and variables whose name starts with g_ are history     *)
(* (ghost) state read by the properties only, never by the program.        *)
(***************************************************************************)
EXTENDS Integers, Sequences, FiniteSets, TLC

VARIABLES
    m_id_counter,       \* app-event.c: last handle id issued
    m_io_records,       \* app-event.c: I/O records (id, callback, user_data)
    m_io_pfds,          \* app-event.c: pollfd of each I/O record (same index)
    m_timer_records,    \* app-event.c: timer records
    clock,              \* value app_event_clock() returns
    pc,                 \* position inside app_event_poll: idle / io / timers
    poll_i,             \* loop index of the running dispatch loop (1-based)
    now,                \* app_event_poll's local variable now
    aborted,            \* the process has terminated through abort()
    streams,            \* heap of app_stream_t objects, indexed by address
    open_fds,           \* descriptors that are open
    service,            \* app-lua-service.c: m_service, the app_service_t object
    sessions,           \* heap of app_service_session_internal_t records
    lua,                \* heap of app_lua_service_session_t objects
    socks,              \* condition of each client socket, as poll(2) sees it
    pending,            \* connections waiting in the listen queue
    g_after_unreg,      \* ghost: ids whose callback ran after an unregister call
    g_early,            \* ghost: timer ids dispatched while clock < expiry
    g_missed,           \* ghost: timers expired before a poll call began, live after it
    g_live_in_cb,       \* ghost: ids whose callback began while the record was live
    g_reentered,        \* ghost: I/O ids dispatched by the poll call that registered them
    g_same_poll,        \* ghost: period-0 timers armed by a timer callback and
                        \*        dispatched by the same poll call
    g_abort,            \* ghost: the call that aborted the process
    g_double,           \* ghost: operations accepted while one was outstanding
    g_stale,            \* ghost: completions delivered while a handle of the
                        \*        operation was still registered or stored
    g_uaf,              \* ghost: reactor callbacks run on a destroyed stream
    g_transient,        \* ghost: operations that reported an error for EAGAIN/EINTR
    g_connects,         \* ghost: connections peers have made
    g_rejects,          \* ghost: connections closed because the service was full
    g_overflow,         \* ghost: descriptors accepted at capacity that were served
    g_closes,           \* ghost: the calls of app_service_close_session made so far
    g_deref,            \* ghost: session objects used after they or their
                        \*        session record had been released
    g_late,             \* ghost: session records whose destroy callback ran out of turn
    g_void,             \* ghost: the unregister call of the last step that named no
                        \* outstanding handle
    g_poll,             \* ghost: block and the wait the last step passed to poll(2)
    g_sync,             \* ghost: completions delivered outside a dispatch of app_event_poll
    g_again,            \* ghost: the completion the last step delivered for EAGAIN
    g_wsync,            \* ghost: streams a call of app_stream_write_sync that returned
                        \* found a write outstanding on or left another program state with
    net_call,           \* app-net-utils.c: arguments and result of app_net_utils_str_to_addr
    options             \* app-options.c: argv and the option values m_...

vars == <<m_id_counter, m_io_records, m_io_pfds, m_timer_records, clock, pc,
          poll_i, now, aborted, streams, open_fds, g_after_unreg, g_early, g_missed,
          g_live_in_cb, g_reentered, g_same_poll, g_abort, g_double, g_stale, g_uaf,
          g_transient, service, sessions, lua, socks, pending, g_connects, g_rejects,
          g_overflow, g_closes, g_deref, g_late, g_void, g_poll, g_sync, g_again,
          g_wsync, net_call, options>>

-----------------------------------------------------------------------------
(* Bounds of the model *)

MaxId == 3          \* handle ids issued in one behaviour
MaxClock == 1       \* last clock value explored
MaxPeriod == 1      \* largest timer period a caller passes
MaxStreams == 1     \* streams created in one behaviour
MaxStreamId == 4    \* handle ids issued in one behaviour of the stream's caller
MaxConnections == 1 \* max_conns of the service (the Lua console passes 64)
MaxConnects == 2    \* connections peers make in one behaviour
MaxPending == 1     \* connections waiting in the listen queue at a time
MaxSends == 2       \* TELNET_EV_SEND events raised by one call of libtelnet
MaxListed == 3      \* max_conns of the service whose session list is examined
MaxListConnects == 4 \* connections peers make to that service in one behaviour

(* Program constants *)

INT_MAX == 2147483647

APP_EVENT_IN == "IN"
APP_EVENT_OUT == "OUT"
APP_EVENT_ERR == "ERR"
APP_EVENT_HUP == "HUP"

Fds == {3}

\* what poll(2) can report about one descriptor
FdConds == {{}, {APP_EVENT_IN}, {APP_EVENT_OUT}, {APP_EVENT_IN, APP_EVENT_HUP}}

-----------------------------------------------------------------------------
(* The world *)

\* no unregister call has been made that named no outstanding handle
NoVoid == [kind |-> "none", same |-> TRUE]

\* the step did not enter poll(2)
NoPoll == [block |-> FALSE, timeout |-> 0, running |-> FALSE]

\* the step delivered no completion for EAGAIN
NoAgain == [s |-> 0, dir |-> "none", result |-> "none", n |-> 0, idle |-> TRUE]

World ==
    [m_id_counter |-> m_id_counter, m_io_records |-> m_io_records,
     m_io_pfds |-> m_io_pfds, m_timer_records |-> m_timer_records,
     clock |-> clock, pc |-> pc, poll_i |-> poll_i, now |-> now,
     aborted |-> aborted, streams |-> streams, open_fds |-> open_fds,
     g_abort |-> g_abort, g_double |-> g_double, g_stale |-> g_stale, g_uaf |-> g_uaf,
     g_transient |-> g_transient, g_after_unreg |-> g_after_unreg, g_early |-> g_early,
     g_missed |-> g_missed, g_live_in_cb |-> g_live_in_cb, g_reentered |-> g_reentered,
     g_same_poll |-> g_same_poll, service |-> service, sessions |-> sessions, lua |-> lua,
     socks |-> socks, pending |-> pending, g_connects |-> g_connects,
     g_rejects |-> g_rejects, g_overflow |-> g_overflow,
     g_closes |-> g_closes, g_deref |-> g_deref, g_late |-> g_late,
     g_void |-> [g_void EXCEPT !.kind = "none"],   \* the kind is of the last step
     g_poll |-> NoPoll,                            \* of the step that enters poll(2)
     g_sync |-> g_sync, g_again |-> NoAgain, g_wsync |-> g_wsync, net_call |-> net_call,
     options |-> options,
     ctx |-> "main",     \* transient: kind of callback being executed
     ret |-> 0]          \* transient: value returned by the last call

Commit(w) ==
    /\ m_id_counter' = w.m_id_counter
    /\ m_io_records' = w.m_io_records
    /\ m_io_pfds' = w.m_io_pfds
    /\ m_timer_records' = w.m_timer_records
    /\ clock' = w.clock
    /\ pc' = w.pc
    /\ poll_i' = w.poll_i
    /\ now' = w.now
    /\ aborted' = w.aborted
    /\ streams' = w.streams
    /\ open_fds' = w.open_fds
    /\ g_abort' = w.g_abort
    /\ g_double' = w.g_double
    /\ g_stale' = w.g_stale
    /\ g_uaf' = w.g_uaf
    /\ g_transient' = w.g_transient
    /\ g_after_unreg' = w.g_after_unreg
    /\ g_early' = w.g_early
    /\ g_missed' = w.g_missed
    /\ g_live_in_cb' = w.g_live_in_cb
    /\ g_reentered' = w.g_reentered
    /\ g_same_poll' = w.g_same_poll
    /\ service' = w.service
    /\ sessions' = w.sessions
    /\ lua' = w.lua
    /\ socks' = w.socks
    /\ pending' = w.pending
    /\ g_connects' = w.g_connects
    /\ g_rejects' = w.g_rejects
    /\ g_overflow' = w.g_overflow
    /\ g_closes' = w.g_closes
    /\ g_deref' = w.g_deref
    /\ g_late' = w.g_late
    /\ g_void' = w.g_void
    /\ g_poll' = w.g_poll
    /\ g_sync' = w.g_sync
    /\ g_again' = w.g_again
    /\ g_wsync' = w.g_wsync
    /\ net_call' = w.net_call
    /\ options' = w.options

\* the variables hold the world w
Launch(w) ==
    /\ m_id_counter = w.m_id_counter
    /\ m_io_records = w.m_io_records
    /\ m_io_pfds = w.m_io_pfds
    /\ m_timer_records = w.m_timer_records
    /\ clock = w.clock
    /\ pc = w.pc
    /\ poll_i = w.poll_i
    /\ now = w.now
    /\ aborted = w.aborted
    /\ streams = w.streams
    /\ open_fds = w.open_fds
    /\ g_abort = w.g_abort
    /\ g_double = w.g_double
    /\ g_stale = w.g_stale
    /\ g_uaf = w.g_uaf
    /\ g_transient = w.g_transient
    /\ g_after_unreg = w.g_after_unreg
    /\ g_early = w.g_early
    /\ g_missed = w.g_missed
    /\ g_live_in_cb = w.g_live_in_cb
    /\ g_reentered = w.g_reentered
    /\ g_same_poll = w.g_same_poll
    /\ service = w.service
    /\ sessions = w.sessions
    /\ lua = w.lua
    /\ socks = w.socks
    /\ pending = w.pending
    /\ g_connects = w.g_connects
    /\ g_rejects = w.g_rejects
    /\ g_overflow = w.g_overflow
    /\ g_closes = w.g_closes
    /\ g_deref = w.g_deref
    /\ g_late = w.g_late
    /\ g_void = w.g_void
    /\ g_poll = w.g_poll
    /\ g_sync = w.g_sync
    /\ g_again = w.g_again
    /\ g_wsync = w.g_wsync
    /\ net_call = w.net_call
    /\ options = w.options

-----------------------------------------------------------------------------
(* app-event.c *)
(*                                                                         *)
(* Ghost fields of a record: gid (the id it was issued, kept when id is    *)
(* zeroed), g_fired (callback invocations), g_unreg (an unregister call    *)
(* matched it), g_new (registered during the running poll call), g_due     *)
(* (timer: expired when the running poll call began), g_armed (timer:      *)
(* period 0, registered by a timer callback of the running poll call).     *)

app_event_clock(w) == w.clock

\* app_net_utils_str_to_addr has not been called
\* sin_port, sin_addr: the fields of *addr, empty while they are as the caller
\* passed them
NoCall == [str |-> << >>, default_address |-> FALSE, resolves |-> FALSE, long_bits |-> 0,
           result |-> "none", sin_port |-> << >>, sin_addr |-> << >>]

\* a struct sockaddr_in whose bytes are all zero: family 0 (AF_UNSPEC), port 0,
\* address 0.0.0.0
ZeroSockaddr ==
    [sin_family |-> "AF_UNSPEC", sin_port |-> <<0, 0>>,
     sin_addr |-> <<"ip", "0", ".", "0", ".", "0", ".", "0">>]

\* app-options.c before app_options_init: the statics are zero.  A pointer into
\* argv is the index of the argument, 0 for NULL; m_lua_input is the list from
\* m_lua_input_head to m_lua_input_tail.
NoOptions ==
    [argv |-> << >>, long_bits |-> 0, hosts |-> FALSE, state |-> "none",
     m_exec_name |-> << >>, m_lua_input |-> << >>,
     m_gdb_bind_address |-> ZeroSockaddr, m_lua_bind_address |-> ZeroSockaddr,
     m_mach_bind_address |-> ZeroSockaddr, m_min_log_priority |-> "APP_LOG_PRIORITY_DETAIL",
     m_rom_size |-> 0, m_ram_size |-> 0, m_testing_enabled |-> FALSE, m_elf_path |-> 0]

\* The id returned to the caller is the new value of m_id_counter.
app_event_register_io(w, fd, events, callback, user_data) ==
    LET id == w.m_id_counter + 1 IN
    [w EXCEPT !.m_id_counter = id,
              !.m_io_records = Append(@, [id |-> id, callback |-> callback,
                                          user_data |-> user_data, gid |-> id,
                                          g_fired |-> 0, g_unreg |-> FALSE,
                                          g_new |-> w.pc # "idle"]),
              !.m_io_pfds = Append(@, [fd |-> fd, events |-> events, revents |-> {}])]

\* index of the first record whose id equals the argument, 0 if none
FirstIoIndex(recs, id) ==
    IF \E i \in 1 .. Len(recs) : recs[i].id = id
    THEN CHOOSE i \in 1 .. Len(recs) :
             /\ recs[i].id = id
             /\ \A j \in 1 .. i - 1 : recs[j].id # id
    ELSE 0

\* the ids held by the records of both tables, in storage order
HandleIds(w) ==
    <<[i \in 1 .. Len(w.m_io_records) |-> w.m_io_records[i].id],
      [i \in 1 .. Len(w.m_timer_records) |-> w.m_timer_records[i].id]>>

\* a record of recs was issued id, has not been dispatched and has not been
\* unregistered
Outstanding(recs, id) ==
    \E i \in 1 .. Len(recs) :
        recs[i].gid = id /\ recs[i].g_fired = 0 /\ ~recs[i].g_unreg

\* what an id that names no outstanding handle of the table own is
VoidKind(w, own, other, id) ==
    IF id = 0 THEN "zero"
    ELSE IF id > w.m_id_counter THEN "unissued"
    ELSE IF \E i \in 1 .. Len(own) : own[i].gid = id /\ own[i].g_fired > 0 THEN "fired"
    ELSE IF \E i \in 1 .. Len(own) : own[i].gid = id THEN "twice"
    ELSE IF \E i \in 1 .. Len(other) : other[i].gid = id THEN "other"
    ELSE "collected"

\* ghost field g_void; w1: the world the unregister call leaves, own, other:
\* the table it searched and the other one, before the call
Voided(w, w1, own, other, id) ==
    IF Outstanding(own, id) THEN w1
    ELSE [w1 EXCEPT !.g_void = [kind |-> VoidKind(w, own, other, id),
                                same |-> HandleIds(w1) = HandleIds(w)]]

app_event_unregister_io(w, id) ==
    LET i == FirstIoIndex(w.m_io_records, id) IN
    Voided(w, IF i = 0 THEN w
              ELSE [w EXCEPT !.m_io_records[i].id = 0,
                             !.m_io_records[i].g_unreg = @ \/ id # 0],
           w.m_io_records, w.m_timer_records, id)

\* the loop moving the last record only, not its pfd
RECURSIVE GcIoRecordOnly(_, _, _)
GcIoRecordOnly(recs, pfds, i) ==
    IF i > Len(recs) THEN <<recs, pfds>>
    ELSE IF recs[i].id = 0
         THEN LET n == Len(recs) IN
              GcIoRecordOnly(SubSeq([recs EXCEPT ![i] = recs[n]], 1, n - 1),
                             SubSeq(pfds, 1, n - 1), i)
         ELSE GcIoRecordOnly(recs, pfds, i + 1)

RECURSIVE gc_io_loop(_, _, _)
gc_io_loop(recs, pfds, i) ==
    IF i > Len(recs) THEN <<recs, pfds>>
    ELSE IF recs[i].id = 0
         THEN LET n == Len(recs) IN
              gc_io_loop(SubSeq([recs EXCEPT ![i] = recs[n]], 1, n - 1),
                         SubSeq([pfds EXCEPT ![i] = pfds[n]], 1, n - 1), i)
         ELSE gc_io_loop(recs, pfds, i + 1)

gc_io(w) ==
    LET r == gc_io_loop(w.m_io_records, w.m_io_pfds, 1) IN
    [w EXCEPT !.m_io_records = r[1], !.m_io_pfds = r[2]]

\* a timer table that numbers its handles by itself
RegisterTimerOwnCounter(w, period, callback, user_data) ==
    LET id == Len(w.m_timer_records) + 1 IN
    [w EXCEPT !.m_timer_records = Append(@, [id |-> id, callback |-> callback,
                                             user_data |-> user_data,
                                             expiry |-> app_event_clock(w) + period,
                                             gid |-> id, g_fired |-> 0, g_unreg |-> FALSE,
                                             g_due |-> FALSE,
                                             g_armed |-> w.ctx = "timer_cb" /\ period = 0])]

app_event_register_timer(w, period, callback, user_data) ==
    LET id == w.m_id_counter + 1 IN
    [w EXCEPT !.m_id_counter = id,
              !.m_timer_records = Append(@, [id |-> id, callback |-> callback,
                                             user_data |-> user_data,
                                             expiry |-> app_event_clock(w) + period,
                                             gid |-> id, g_fired |-> 0, g_unreg |-> FALSE,
                                             g_due |-> FALSE,
                                             g_armed |-> w.ctx = "timer_cb" /\ period = 0])]

\* Zeroes the id of every record whose id equals the argument.
app_event_unregister_timer(w, id) ==
    Voided(w, [w EXCEPT !.m_timer_records =
                  [i \in 1 .. Len(w.m_timer_records) |->
                      IF w.m_timer_records[i].id = id
                      THEN [w.m_timer_records[i] EXCEPT !.id = 0, !.g_unreg = @ \/ id # 0]
                      ELSE w.m_timer_records[i]]],
           w.m_timer_records, w.m_io_records, id)

RECURSIVE gc_timers_loop(_, _)
gc_timers_loop(recs, i) ==
    IF i > Len(recs) THEN recs
    ELSE IF recs[i].id = 0
         THEN LET n == Len(recs) IN
              gc_timers_loop(SubSeq([recs EXCEPT ![i] = recs[n]], 1, n - 1), i)
         ELSE gc_timers_loop(recs, i + 1)

gc_timers(w) == [w EXCEPT !.m_timer_records = gc_timers_loop(@, 1)]

\* The loop of app_event_poll that computes the wait from the timer table.
\* The code starts from INT64_MAX and caps the result at INT_MAX afterwards;
\* starting from INT_MAX yields the same value.
\* the loop without the test for a timer that has already expired
RECURSIVE TimerTimeoutNoClamp(_, _, _, _)
TimerTimeoutNoClamp(recs, t_now, i, timeout) ==
    IF i > Len(recs) THEN timeout
    ELSE LET remaining_ms == recs[i].expiry - t_now IN
         TimerTimeoutNoClamp(recs, t_now, i + 1,
                             IF remaining_ms < timeout THEN remaining_ms ELSE timeout)

RECURSIVE TimerTimeout(_, _, _, _)
TimerTimeout(recs, t_now, i, timeout) ==
    IF i > Len(recs) THEN timeout
    ELSE LET remaining_ms == recs[i].expiry - t_now IN
         TimerTimeout(recs, t_now, i + 1,
                      IF remaining_ms < 0 THEN 0
                      ELSE IF remaining_ms < timeout THEN remaining_ms
                      ELSE timeout)

PollTimeout(w, block) ==
    LET timeout ==
            IF block
            THEN IF Len(w.m_timer_records) = 0 THEN -1
                 ELSE TimerTimeout(w.m_timer_records, app_event_clock(w), 1, INT_MAX)
            ELSE 0
    IN IF timeout > INT_MAX THEN INT_MAX ELSE timeout

\* poll(2): what is reported for a pollfd when the descriptor is in condition cond
Revents(pfd, cond) == cond \cap (pfd.events \cup {APP_EVENT_ERR, APP_EVENT_HUP})

-----------------------------------------------------------------------------
(* app-stream.c *)
(*                                                                         *)
(* A stream is named by its index in streams (its address).  Buffers and   *)
(* byte counts are not kept; a transfer yields a count of 0 or 1.  Ghost   *)
(* fields per direction: g_*_out (an operation was issued and has not      *)
(* completed), g_*_done (completions delivered for the operation issued    *)
(* last), g_*_in_cb (that operation was issued from inside a callback),    *)
(* g_*_result (what the last completion reported).                         *)

APP_RESULT_OK == "OK"
APP_RESULT_HUP == "HUP"
APP_RESULT_IO_ERROR == "IO_ERROR"
APP_RESULT_TIMEOUT == "TIMEOUT"

NULL == -1      \* no timeout object / no descriptor

\* one call of read(2) or write(2): the value returned and errno
Sys(ret, errno) == [ret |-> ret, errno |-> errno]

SysFinal == {Sys(1, "none"), Sys(0, "none"), Sys(-1, "EAGAIN"), Sys(-1, "EIO")}

\* the outcomes of the successive calls a retry loop makes
SysSeqs == {<<x>> : x \in SysFinal} \cup {<<Sys(-1, "EINTR"), x>> : x \in SysFinal}

\* do { r = read(...) } while (r < 0 && errno == EINTR)
RECURSIVE RetryEINTR(_, _)
RetryEINTR(sys, k) ==
    IF sys[k].ret < 0 /\ sys[k].errno = "EINTR" /\ k < Len(sys)
    THEN RetryEINTR(sys, k + 1)
    ELSE sys[k]

\* a single call, not retried
NoRetry(sys, k) == sys[k]

Abort(w, op, outstanding) ==
    [w EXCEPT !.aborted = TRUE, !.g_abort = [op |-> op, outstanding |-> outstanding]]

app_stream_create(w, read_fd, write_fd) ==
    [w EXCEPT !.streams = Append(@,
        [alive |-> TRUE,
         read_fd |-> read_fd, read_callback |-> "NULL", read_user_data |-> 0,
         read_io_id |-> 0, read_timeout_id |-> 0,
         write_fd |-> write_fd, write_callback |-> "NULL", write_user_data |-> 0,
         write_io_id |-> 0, write_timeout_id |-> 0,
         g_read_out |-> FALSE, g_read_done |-> 0, g_read_in_cb |-> FALSE,
         g_read_result |-> "none", g_read_late |-> FALSE,
         g_write_out |-> FALSE, g_write_done |-> 0, g_write_in_cb |-> FALSE,
         g_write_result |-> "none"])]

\* free() only, the interests of outstanding operations stay registered
StreamDestroyFreeOnly(w, s) ==
    [w EXCEPT !.streams[s].alive = FALSE,
              !.streams[s].g_read_out = FALSE,
              !.streams[s].g_write_out = FALSE]

\* the interest of an outstanding read stays registered
DestroyKeepsRead(w, s) ==
    LET w3 == app_event_unregister_io(w, w.streams[s].write_io_id)
        w4 == app_event_unregister_timer(w3, w.streams[s].write_timeout_id)
    IN [w4 EXCEPT !.streams[s].write_io_id = 0,
                  !.streams[s].write_timeout_id = 0,
                  !.streams[s].alive = FALSE,
                  !.streams[s].g_read_out = FALSE,
                  !.streams[s].g_write_out = FALSE]

app_stream_destroy(w, s) ==
    LET w1 == app_event_unregister_io(w, w.streams[s].read_io_id)
        w2 == app_event_unregister_timer(w1, w.streams[s].read_timeout_id)
        w3 == app_event_unregister_io(w2, w.streams[s].write_io_id)
        w4 == app_event_unregister_timer(w3, w.streams[s].write_timeout_id)
    IN [w4 EXCEPT !.streams[s].read_io_id = 0,
                  !.streams[s].read_timeout_id = 0,
                  !.streams[s].write_io_id = 0,
                  !.streams[s].write_timeout_id = 0,
                  !.streams[s].alive = FALSE,
                  !.streams[s].g_read_out = FALSE,
                  !.streams[s].g_write_out = FALSE]

\* the test of an earlier revision: a read callback has been stored
ReadInProgressByCallback(st) == st.read_callback # "NULL"

ReadInProgress(st) == st.read_io_id # 0

\* ghost fields of a completion: the callback of direction dir of stream s is
\* invoked with result
Delivered(w, s, dir, result) ==
    [w EXCEPT !.streams[s].g_read_out = IF dir = "read" THEN FALSE ELSE @,
              !.streams[s].g_read_done = IF dir = "read" THEN @ + 1 ELSE @,
              !.streams[s].g_read_result = IF dir = "read" THEN result ELSE @,
              !.streams[s].g_write_out = IF dir = "write" THEN FALSE ELSE @,
              !.streams[s].g_write_done = IF dir = "write" THEN @ + 1 ELSE @,
              !.streams[s].g_write_result = IF dir = "write" THEN result ELSE @,
              !.g_sync = IF w.ctx = "main" THEN @ \cup {<<s, dir>>} ELSE @]

\* a read whose timeout has already expired is completed by the call itself
ReadExpiredAtOnce(w, s, callback, user_data, timeout) ==
    IF ReadInProgress(w.streams[s])
    THEN Abort(w, "app_stream_read", w.streams[s].g_read_out)
    ELSE IF timeout = 0
    THEN Delivered([w EXCEPT !.streams[s].g_read_done = 0], s, "read", APP_RESULT_TIMEOUT)
    ELSE LET w1 == app_event_register_io(w, w.streams[s].read_fd, {APP_EVENT_IN},
                                         "read_io_callback", s)
             w2 == IF timeout # NULL
                   THEN app_event_register_timer(w1, timeout, "read_timeout_callback", s)
                   ELSE w1
         IN [w2 EXCEPT !.streams[s].read_callback = callback,
                       !.streams[s].read_user_data = user_data,
                       !.streams[s].read_io_id = w1.m_id_counter,
                       !.streams[s].read_timeout_id =
                           IF timeout # NULL THEN w2.m_id_counter ELSE 0,
                       !.streams[s].g_read_out = TRUE,
                       !.streams[s].g_read_done = 0,
                       !.streams[s].g_read_in_cb = w.ctx # "main",
                       !.streams[s].g_read_late = FALSE]

\* timeout is NULL or the value app_timeout_remaining_ms returns for it
app_stream_read(w, s, callback, user_data, timeout) ==
    IF ReadInProgress(w.streams[s])
    THEN Abort(w, "app_stream_read", w.streams[s].g_read_out)
    ELSE LET w1 == app_event_register_io(w, w.streams[s].read_fd, {APP_EVENT_IN},
                                         "read_io_callback", s)
             w2 == IF timeout # NULL
                   THEN app_event_register_timer(w1, timeout, "read_timeout_callback", s)
                   ELSE w1
         IN [w2 EXCEPT !.streams[s].read_callback = callback,
                       !.streams[s].read_user_data = user_data,
                       !.streams[s].read_io_id = w1.m_id_counter,
                       !.streams[s].read_timeout_id =
                           IF timeout # NULL THEN w2.m_id_counter ELSE 0,
                       !.streams[s].g_read_out = TRUE,
                       !.streams[s].g_read_done = 0,
                       !.streams[s].g_read_in_cb = w.ctx # "main",
                       !.streams[s].g_read_late = FALSE,
                       !.g_double = IF w.streams[s].g_read_out
                                    THEN @ \cup {<<s, "read">>} ELSE @]

WriteInProgress(st) == st.write_io_id # 0

app_stream_write(w, s, callback, user_data, timeout) ==
    IF WriteInProgress(w.streams[s])
    THEN Abort(w, "app_stream_write", w.streams[s].g_write_out)
    ELSE LET w1 == app_event_register_io(w, w.streams[s].write_fd, {APP_EVENT_OUT},
                                         "write_io_callback", s)
             w2 == IF timeout # NULL
                   THEN app_event_register_timer(w1, timeout, "write_timeout_callback", s)
                   ELSE w1
         IN [w2 EXCEPT !.streams[s].write_callback = callback,
                       !.streams[s].write_user_data = user_data,
                       !.streams[s].write_io_id = w1.m_id_counter,
                       !.streams[s].write_timeout_id =
                           IF timeout # NULL THEN w2.m_id_counter ELSE 0,
                       !.streams[s].g_write_out = TRUE,
                       !.streams[s].g_write_done = 0,
                       !.streams[s].g_write_in_cb = w.ctx # "main",
                       !.g_double = IF w.streams[s].g_write_out
                                    THEN @ \cup {<<s, "write">>} ELSE @]

\* the fields of the reactor and of the streams that the program reads
ProgramState(w) ==
    <<w.m_id_counter, HandleIds(w),
      [s \in 1 .. Len(w.streams) |->
          <<w.streams[s].alive,
            w.streams[s].read_callback, w.streams[s].read_user_data,
            w.streams[s].read_io_id, w.streams[s].read_timeout_id,
            w.streams[s].write_callback, w.streams[s].write_user_data,
            w.streams[s].write_io_id, w.streams[s].write_timeout_id>>]>>

\* ghost field g_wsync; w1: the world the call that did not abort leaves
WrittenSync(w, w1, s) ==
    [w1 EXCEPT !.g_wsync = IF w.streams[s].g_write_out \/ ProgramState(w1) # ProgramState(w)
                           THEN @ \cup {s} ELSE @]

\* the write is made whether or not a write is in progress
WriteSyncUnchecked(w, s, sys) ==
    LET r == NoRetry(sys, 1) IN
    WrittenSync(w, [w EXCEPT !.ret = r.ret,
                             !.g_transient = IF r.ret < 0 /\ r.errno \in {"EAGAIN", "EINTR"}
                                             THEN @ \cup {"app_stream_write_sync"} ELSE @], s)

\* The value returned is left in ret.
app_stream_write_sync(w, s, sys) ==
    IF WriteInProgress(w.streams[s])
    THEN [Abort(w, "app_stream_write_sync", w.streams[s].g_write_out) EXCEPT !.ret = -1]
    ELSE LET r == NoRetry(sys, 1) IN
         WrittenSync(w, [w EXCEPT !.ret = r.ret,
                                  !.g_transient = IF r.ret < 0 /\ r.errno \in {"EAGAIN", "EINTR"}
                                                  THEN @ \cup {"app_stream_write_sync"} ELSE @], s)

-----------------------------------------------------------------------------
(* Callers that are not part of the repository: code that uses the reactor *)
(* and the stream between poll calls and from inside its own callbacks.    *)
(* One call per callback execution.  A choice holds the call (op and its   *)
(* arguments: fd, events, id, period, the stream s, the outcome usys of a  *)
(* synchronous write), sys, the outcomes of the system calls made by the   *)
(* repository's callback that runs first, mem, what a freshly allocated    *)
(* block holds where the code does not initialise it, and create, what the *)
(* create callback of a caller of the service returns.                     *)

Choice(op, fd, events, id, period, s, usys, sys) ==
    [op |-> op, fd |-> fd, events |-> events, id |-> id, period |-> period,
     s |-> s, usys |-> usys, sys |-> sys, mem |-> "none", create |-> "object"]

UserOp(op, fd, events, id, period) == Choice(op, fd, events, id, period, 0, << >>, << >>)

NoOp == UserOp("none", 0, {}, 0, 0)

UserOps ==
    {NoOp}
    \cup {UserOp("register_io", fd, {ev}, 0, 0) : fd \in Fds, ev \in {APP_EVENT_IN, APP_EVENT_OUT}}
    \cup {UserOp("unregister_io", 0, {}, id, 0) : id \in 0 .. MaxId}
    \cup {UserOp("register_timer", 0, {}, 0, p) : p \in 0 .. MaxPeriod}
    \cup {UserOp("unregister_timer", 0, {}, id, 0) : id \in 0 .. MaxId}

StreamOp(op, period, s, usys) == Choice(op, 0, {}, 0, period, s, usys, << >>)

Timeouts == {NULL} \cup (0 .. MaxPeriod)

StreamOps(S) ==
    {StreamOp("app_stream_read", t, s, << >>) : t \in Timeouts, s \in S}
    \cup {StreamOp("app_stream_write", t, s, << >>) : t \in Timeouts, s \in S}
    \cup {StreamOp("app_stream_write_sync", 0, s, <<x>>) :
              s \in S, x \in SysFinal \cup {Sys(-1, "EINTR")}}
    \cup {StreamOp("app_stream_destroy", 0, s, << >>) : s \in S}

WithSys(ops, syss) == {[o EXCEPT !.sys = q] : o \in ops, q \in syss}

\* handle ids the call consumes at most
IdsNeeded(o) ==
    CASE o.op \in {"register_io", "register_timer"} -> 1
      [] o.op \in {"app_stream_read", "app_stream_write"} -> IF o.period = NULL THEN 1 ELSE 2
      [] OTHER -> 0

\* the caller only passes streams it has not destroyed
Usable(w, o) == o.s # 0 => (o.s <= Len(w.streams) /\ w.streams[o.s].alive)

ApplyUserOp(w, o) ==
    CASE o.op = "register_io" ->
             app_event_register_io(w, o.fd, o.events, "user_io_callback", 0)
      [] o.op = "unregister_io" -> app_event_unregister_io(w, o.id)
      [] o.op = "register_timer" ->
             app_event_register_timer(w, o.period, "user_timer_callback", 0)
      [] o.op = "unregister_timer" -> app_event_unregister_timer(w, o.id)
      [] o.op = "app_stream_read" ->
             app_stream_read(w, o.s, "stream_user_callback", 0, o.period)
      [] o.op = "app_stream_write" ->
             app_stream_write(w, o.s, "stream_user_callback", 0, o.period)
      [] o.op = "app_stream_write_sync" -> app_stream_write_sync(w, o.s, o.usys)
      [] o.op = "app_stream_destroy" -> app_stream_destroy(w, o.s)
      [] OTHER -> w

user_io_callback(w, events, user_data, o) == ApplyUserOp(w, o)

user_timer_callback(w, user_data, o) == ApplyUserOp(w, o)

\* completion callback of a caller of the stream
stream_user_callback(w, s, result, n_transferred, user_data, o) == ApplyUserOp(w, o)

-----------------------------------------------------------------------------
(* app-service.c and app-lua-service.c: the release of a session           *)
(*                                                                         *)
(* A session record is named by its index in sessions; 0 is the NULL       *)
(* pointer.  Field service is ctx.service: accept_callback allocates the   *)
(* record with malloc and never assigns ctx.service, so it holds whatever  *)
(* the block held (mem): the address of the service, or anything else.     *)
(* prev and next are not read before accept_callback has assigned them.    *)
(* A session object of the Lua console is named by its index l in lua; its *)
(* field ctx is the index of the service's session record.  The object of  *)
(* another caller of the service is named by the index of its record.      *)
(* Ghost fields of a session record: g_object (what the create callback    *)
(* returned), g_closed (calls of app_service_close_session for it),        *)
(* g_destroys (calls of the destroy callback for it).  Ghost fields of a   *)
(* session object: g_hup / g_eof (a read completion with HUP / with OK and *)
(* no byte was delivered to it), g_req (schedule_close was called for it   *)
(* in the running poll call), g_reqs (calls of schedule_close, up to 2).   *)

ListenSocket == 3

ClientFds == (ListenSocket + 1) .. (ListenSocket + 1 + MaxListed)

\* what an uninitialised pointer can hold
Mems == {"service", "garbage"}

\* accept(2) returns the lowest descriptor that is not open
NewFd(w) ==
    CHOOSE fd \in ClientFds \ w.open_fds : \A g \in ClientFds \ w.open_fds : fd <= g

close_socket(w, skt) ==
    IF skt >= 0
    THEN [w EXCEPT !.open_fds = @ \ {skt},
                   !.socks = [fd \in DOMAIN @ |-> IF fd = skt THEN "free" ELSE @[fd]]]
    ELSE w

SessionStream(w, l) == w.sessions[w.lua[l].ctx].stream

session_destroy_callback(w, l) ==
    [app_event_unregister_timer(w, w.lua[l].close_id) EXCEPT
        !.lua[l].close_id = 0,
        !.lua[l].alive = FALSE]

\* destroy callback of a caller of the service other than the Lua console
user_destroy_callback(w, object) == w

\* service->destroy_session_cb(session_internal->object, service->user_data)
InvokeDestroy(w, callback, object) ==
    CASE callback = "session_destroy_callback" -> session_destroy_callback(w, object)
      [] OTHER -> user_destroy_callback(w, object)

\* the destroy callback is called a second time, for no object, or after the
\* stream or the socket of the record ses has been released
OutOfTurn(w, ses) ==
    \/ ses.g_destroys > 0
    \/ ses.g_object = 0
    \/ ses.stream = 0
    \/ ses.client_socket \notin w.open_fds
    \/ (ses.stream # 0 /\ ~w.streams[ses.stream].alive)

\* cleanup_session releasing the stream and the socket before it destroys
\* the session object
CleanupObjectLast(w, si) ==
    IF w.sessions[si].service # "service"
    THEN Abort(w, "cleanup_session", FALSE)
    ELSE LET ses == w.sessions[si]
             w1 == IF ses.stream # 0
                   THEN [app_stream_destroy(w, ses.stream) EXCEPT !.sessions[si].stream = 0]
                   ELSE w
             w2 == IF ses.client_socket >= 0
                   THEN [close_socket(w1, ses.client_socket) EXCEPT
                            !.sessions[si].client_socket = NULL]
                   ELSE w1
             w3 == IF ses.object # 0
                   THEN [InvokeDestroy(w2, w2.service.destroy_session_cb, ses.object) EXCEPT
                            !.sessions[si].object = 0,
                            !.sessions[si].g_destroys = @ + 1,
                            !.g_late = IF OutOfTurn(w2, w2.sessions[si])
                                       THEN @ \cup {si} ELSE @]
                   ELSE w2
         IN [w3 EXCEPT !.sessions[si].service = "NULL",
                       !.sessions[si].allocated = FALSE]

cleanup_session(w, si) ==
    IF w.sessions[si].service # "service"
    THEN Abort(w, "cleanup_session", FALSE)     \* APP_ASSERT(ctx.service == service)
    ELSE LET ses == w.sessions[si]
             w1 == IF ses.object # 0
                   THEN [InvokeDestroy(w, w.service.destroy_session_cb, ses.object) EXCEPT
                            !.sessions[si].object = 0,
                            !.sessions[si].g_destroys = @ + 1,
                            !.g_late = IF OutOfTurn(w, ses) THEN @ \cup {si} ELSE @]
                   ELSE w
             w2 == IF ses.stream # 0
                   THEN [app_stream_destroy(w1, ses.stream) EXCEPT !.sessions[si].stream = 0]
                   ELSE w1
             w3 == IF ses.client_socket >= 0
                   THEN [close_socket(w2, ses.client_socket) EXCEPT
                            !.sessions[si].client_socket = NULL]
                   ELSE w2
         IN [w3 EXCEPT !.sessions[si].service = "NULL",
                       !.sessions[si].allocated = FALSE]

\* schedule_close was called in the running poll call for the object of si
RequestedNow(w, si) ==
    LET l == w.sessions[si].object
    IN IF w.service.create_session_cb = "session_create_callback" /\ l # 0
       THEN w.lua[l].g_req ELSE FALSE

\* the call is entered: ctx the kind of callback that makes it, pc the loop
\* of app_event_poll that runs
CloseEntered(w, si) ==
    [w EXCEPT !.g_closes = @ \cup {[ctx |-> w.ctx, pc |-> w.pc,
                                    same |-> RequestedNow(w, si)]},
              !.sessions[si].g_closed = @ + 1]

\* unlinking without service->last_session = session_internal->prev
UnlinkKeepsLast(w, ses) ==
    LET w1 == [w EXCEPT !.service.session_count = @ - 1]
        w2 == IF ses.next # 0
              THEN [w1 EXCEPT !.sessions[ses.next].prev = ses.prev]
              ELSE w1
    IN IF ses.prev # 0
       THEN [w2 EXCEPT !.sessions[ses.prev].next = ses.next]
       ELSE [w2 EXCEPT !.service.first_session = ses.next]

\* unlink session record, ses: the record as the call found it
Unlink(w, ses) ==
    LET w1 == [w EXCEPT !.service.session_count = @ - 1]
        w2 == IF ses.next # 0
              THEN [w1 EXCEPT !.sessions[ses.next].prev = ses.prev]
              ELSE [w1 EXCEPT !.service.last_session = ses.prev]
    IN IF ses.prev # 0
       THEN [w2 EXCEPT !.sessions[ses.prev].next = ses.next]
       ELSE [w2 EXCEPT !.service.first_session = ses.next]

\* ctx->service is read uninitialised: with anything but the address of the
\* service in it the first access through it faults
app_service_close_session(w, si) ==
    IF w.sessions[si].service # "service"
    THEN Abort(CloseEntered(w, si), "app_service_close_session", FALSE)
    ELSE cleanup_session(Unlink(CloseEntered(w, si), w.sessions[si]), si)

-----------------------------------------------------------------------------
(* app-lua-service.c, the session object                                   *)
(*                                                                         *)
(* libtelnet is reduced to what it asks the session to send: a call of     *)
(* telnet_negotiate or telnet_recv raises one TELNET_EV_SEND per element   *)
(* of usys, the outcomes of the write(2) calls made for them.              *)

\* outcomes of the write(2) call that sends telnet output
LuaWrite == {Sys(1, "none"), Sys(-1, "EAGAIN"), Sys(-1, "EPIPE")}

LuaWrites == UNION {[1 .. n -> LuaWrite] : n \in 1 .. MaxSends}

\* session->ctx is dereferenced after the session object or the record it
\* points to has been freed
CtxReleased(w, l) == ~w.lua[l].alive \/ ~w.sessions[w.lua[l].ctx].allocated

\* undefined behaviour, the run is not followed further
Dangling(w, l) == [w EXCEPT !.g_deref = @ \cup {l}, !.aborted = TRUE]

\* closing the session from inside the callback that asks for it
ScheduleCloseNow(w, l) ==
    IF CtxReleased(w, l) THEN Dangling(w, l)
    ELSE app_service_close_session(w, w.lua[l].ctx)

\* arming a timer whether or not one is armed
ScheduleCloseAlways(w, l) ==
    LET w1 == app_event_register_timer(w, 0, "close_session_callback", l)
    IN [w1 EXCEPT !.lua[l].close_id = w1.m_id_counter,
                  !.lua[l].g_req = TRUE,
                  !.lua[l].g_reqs = IF @ < 2 THEN @ + 1 ELSE @]

\* defer session close until next app_event_poll
schedule_close(w, l) ==
    IF w.lua[l].close_id = 0
    THEN LET w1 == app_event_register_timer(w, 0, "close_session_callback", l)
         IN [w1 EXCEPT !.lua[l].close_id = w1.m_id_counter,
                       !.lua[l].g_req = TRUE,
                       !.lua[l].g_reqs = IF @ < 2 THEN @ + 1 ELSE @]
    ELSE [w EXCEPT !.lua[l].g_req = TRUE,
                   !.lua[l].g_reqs = IF @ < 2 THEN @ + 1 ELSE @]

\* w1: the world app_stream_write_sync returned in, its result in ret
WriteDone(w1, l) ==
    IF w1.aborted THEN w1
    ELSE IF w1.ret < 0 THEN schedule_close(w1, l)
    ELSE w1

\* a failed write closes the session at once
SendEventClosesNow(w, l, usys) ==
    IF CtxReleased(w, l) THEN Dangling(w, l)
    ELSE LET w1 == app_stream_write_sync(w, SessionStream(w, l), usys)
         IN IF w1.aborted THEN w1
            ELSE IF w1.ret < 0 THEN ScheduleCloseNow(w1, l)
            ELSE w1

handle_telnet_send_event(w, l, usys) ==
    IF CtxReleased(w, l) THEN Dangling(w, l)
    ELSE WriteDone(app_stream_write_sync(w, SessionStream(w, l), usys), l)

\* TELNET_EV_SEND is the only event the session acts on
telnet_callback(w, l, usys) ==
    IF usys = << >> THEN w ELSE handle_telnet_send_event(w, l, usys)

\* telnet_recv / telnet_negotiate: one TELNET_EV_SEND per element of usys
RECURSIVE TelnetEvents(_, _, _)
TelnetEvents(w, l, usys) ==
    IF usys = << >> \/ w.aborted THEN w
    ELSE TelnetEvents(telnet_callback(w, l, <<Head(usys)>>), l, Tail(usys))

schedule_read(w, l) ==
    IF CtxReleased(w, l) THEN Dangling(w, l)
    ELSE app_stream_read(w, SessionStream(w, l), "read_callback", l, NULL)

\* issuing the read twice
WaitForInputTwice(w1, l) ==
    IF w1.aborted THEN w1 ELSE schedule_read(schedule_read(w1, l), l)

\* wait for more input, w1: the world telnet_recv / telnet_negotiate left
WaitForInput(w1, l) == IF w1.aborted THEN w1 ELSE schedule_read(w1, l)

\* the read callback that waits for more input after every completion
ReadCallbackRereads(w, stream, result, n_transferred, l, o) ==
    IF ~w.lua[l].alive THEN Dangling(w, l)
    ELSE LET w0 == [w EXCEPT
                       !.lua[l].g_hup = @ \/ result = APP_RESULT_HUP,
                       !.lua[l].g_eof = @ \/ (result = APP_RESULT_OK /\ n_transferred = 0)]
         IN WaitForInput(IF result = APP_RESULT_OK
                         THEN TelnetEvents(w0, l, o.usys) ELSE w0, l)

read_callback(w, stream, result, n_transferred, l, o) ==
    IF ~w.lua[l].alive THEN Dangling(w, l)
    ELSE LET w0 == [w EXCEPT
                       !.lua[l].g_hup = @ \/ result = APP_RESULT_HUP,
                       !.lua[l].g_eof = @ \/ (result = APP_RESULT_OK /\ n_transferred = 0)]
         IN IF result = APP_RESULT_OK /\ n_transferred = 0
            THEN schedule_close(w0, l)
            ELSE WaitForInput(IF result = APP_RESULT_OK
                              THEN TelnetEvents(w0, l, o.usys) ELSE w0, l)

\* The address of the new object is left in ret.  ctx: the session record.
session_create_callback(w, ctx, o) ==
    LET l == Len(w.lua) + 1
        w1 == [w EXCEPT !.lua = Append(@, [alive |-> TRUE, ctx |-> ctx, close_id |-> 0,
                                           g_hup |-> FALSE, g_eof |-> FALSE,
                                           g_req |-> FALSE, g_reqs |-> 0])]
    IN [WaitForInput(TelnetEvents(w1, l, o.usys), l) EXCEPT !.ret = l]

\* create callback of a caller of the service other than the Lua console: it
\* returns its object for the session, or NULL
user_create_callback(w, ctx, o) == [w EXCEPT !.ret = IF o.create = "NULL" THEN 0 ELSE ctx]

close_session_callback(w, l, o) ==
    IF CtxReleased(w, l) THEN Dangling(w, l)
    ELSE app_service_close_session([w EXCEPT !.lua[l].close_id = 0], w.lua[l].ctx)

-----------------------------------------------------------------------------
(* app-stream.c, the callbacks the stream registers with the reactor *)

StreamResults == {APP_RESULT_OK, APP_RESULT_HUP, APP_RESULT_IO_ERROR, APP_RESULT_TIMEOUT}

\* live handles of the reactor that belong to direction dir of stream s
LiveHandles(w, s, dir) ==
    {w.m_io_records[i].id :
        i \in {j \in 1 .. Len(w.m_io_records) :
                  /\ w.m_io_records[j].id # 0
                  /\ w.m_io_records[j].user_data = s
                  /\ w.m_io_records[j].callback = dir \o "_io_callback"}}
    \cup
    {w.m_timer_records[i].id :
        i \in {j \in 1 .. Len(w.m_timer_records) :
                  /\ w.m_timer_records[j].id # 0
                  /\ w.m_timer_records[j].user_data = s
                  /\ w.m_timer_records[j].callback = dir \o "_timeout_callback"}}

\* the handle ids stream st stores for direction dir
StoredIoId(st, dir) == IF dir = "read" THEN st.read_io_id ELSE st.write_io_id

StoredTimeoutId(st, dir) == IF dir = "read" THEN st.read_timeout_id ELSE st.write_timeout_id

\* for each direction of stream s the ids of the live I/O records and of the
\* live timers registered for it are the ids the stream stores, and it stores
\* no timeout id without an I/O id
StreamIdsLive(w, s) ==
    \A dir \in {"read", "write"} :
        LET io == StoredIoId(w.streams[s], dir)
            tm == StoredTimeoutId(w.streams[s], dir)
        IN /\ {w.m_io_records[i].id :
                  i \in {j \in 1 .. Len(w.m_io_records) :
                            /\ w.m_io_records[j].id # 0
                            /\ w.m_io_records[j].user_data = s
                            /\ w.m_io_records[j].callback = dir \o "_io_callback"}}
                  = (IF io # 0 THEN {io} ELSE {})
           /\ {w.m_timer_records[i].id :
                  i \in {j \in 1 .. Len(w.m_timer_records) :
                            /\ w.m_timer_records[j].id # 0
                            /\ w.m_timer_records[j].user_data = s
                            /\ w.m_timer_records[j].callback = dir \o "_timeout_callback"}}
                  = (IF tm # 0 THEN {tm} ELSE {})
           /\ tm # 0 => io # 0

StoredIdsLive(w) ==
    \A s \in 1 .. Len(w.streams) : w.streams[s].alive => StreamIdsLive(w, s)

\* stream->read_callback(...) / stream->write_callback(...)
InvokeStream(w, callback, s, dir, result, n_transferred, user_data, o) ==
    LET w1 == [Delivered(w, s, dir, result) EXCEPT
                  !.g_stale = IF LiveHandles(w, s, dir) # {} \/ result \notin StreamResults
                                 \/ StoredIoId(w.streams[s], dir) # 0
                                 \/ StoredTimeoutId(w.streams[s], dir) # 0
                                 \/ ~StreamIdsLive(w, s)
                                 \/ n_transferred < 0
                                 \/ (n_transferred > 0 /\ result # APP_RESULT_OK)
                              THEN @ \cup {<<s, dir>>} ELSE @]
    IN CASE callback = "stream_user_callback" ->
                stream_user_callback(w1, s, result, n_transferred, user_data, o)
         [] callback = "read_callback" ->
                read_callback(w1, s, result, n_transferred, user_data, o)
         [] OTHER -> w1

\* a reactor callback whose user_data points to a freed stream: undefined
\* behaviour, the run is not followed further
UseAfterFree(w, s) == [w EXCEPT !.g_uaf = @ \cup {s}, !.aborted = TRUE]

\* EAGAIN is reported as an error
DecodeAgainError(r) ==
    IF r.ret >= 0 THEN [result |-> APP_RESULT_OK, n |-> r.ret]
    ELSE [result |-> APP_RESULT_IO_ERROR, n |-> 0]

\* the result handed to the caller for the outcome r of the transfer
Decode(r) ==
    IF r.ret >= 0 THEN [result |-> APP_RESULT_OK, n |-> r.ret]
    ELSE IF r.errno = "EAGAIN" THEN [result |-> APP_RESULT_OK, n |-> 0]
    ELSE [result |-> APP_RESULT_IO_ERROR, n |-> 0]

\* the number of calls the retry loop makes
RECURSIVE CallsMade(_, _)
CallsMade(sys, k) ==
    IF sys[k].ret < 0 /\ sys[k].errno = "EINTR" /\ k < Len(sys)
    THEN CallsMade(sys, k + 1)
    ELSE k

\* the readiness bit is looked at before the hang-up bit
TransferReadyFirst(events, ready, sys) ==
    IF ready \in events
    THEN LET r == RetryEINTR(sys, 1) IN
         [result |-> Decode(r).result, n |-> Decode(r).n, errno |-> r.errno,
          calls |-> CallsMade(sys, 1)]
    ELSE IF APP_EVENT_HUP \in events
         THEN [result |-> APP_RESULT_HUP, n |-> 0, errno |-> "none", calls |-> 0]
         ELSE [result |-> APP_RESULT_IO_ERROR, n |-> 0, errno |-> "none", calls |-> 0]

\* result, count and errno the readiness callback ends up with for the events
\* reported, and the number of read() / write() calls it makes; sys: what the
\* successive calls return
Transfer(events, ready, sys) ==
    IF APP_EVENT_HUP \in events
    THEN [result |-> APP_RESULT_HUP, n |-> 0, errno |-> "none", calls |-> 0]
    ELSE IF ready \in events
         THEN LET r == RetryEINTR(sys, 1) IN
              [result |-> Decode(r).result, n |-> Decode(r).n, errno |-> r.errno,
               calls |-> CallsMade(sys, 1)]
         ELSE [result |-> APP_RESULT_IO_ERROR, n |-> 0, errno |-> "none", calls |-> 0]

GhostTransient(w, t, what) ==
    [w EXCEPT !.g_transient = IF t.result = APP_RESULT_IO_ERROR /\ t.errno \in {"EAGAIN", "EINTR"}
                              THEN @ \cup {what} ELSE @]

\* ghost field g_again; w: the world in which the callback of direction dir of
\* stream s is about to be invoked with the outcome t of a transfer
GhostAgain(w, s, dir, t) ==
    IF t.errno = "EAGAIN"
    THEN [w EXCEPT !.g_again = [s |-> s, dir |-> dir, result |-> t.result, n |-> t.n,
                                idle |-> LiveHandles(w, s, dir) = {}]]
    ELSE w

\* the readiness callback that leaves the timeout registered
ReadIoKeepTimer(w, s) ==
    [w EXCEPT !.streams[s].read_io_id = 0, !.streams[s].read_timeout_id = 0]

\* cancel read timer event
ReadIoCancelTimer(w, s) ==
    [app_event_unregister_timer(w, w.streams[s].read_timeout_id) EXCEPT
        !.streams[s].read_io_id = 0, !.streams[s].read_timeout_id = 0]

read_io_callback(w, events, s, o) ==
    IF ~w.streams[s].alive THEN UseAfterFree(w, s)
    ELSE LET w1 == ReadIoCancelTimer(w, s)
             t == Transfer(events, APP_EVENT_IN, o.sys)
         IN InvokeStream(GhostAgain(GhostTransient(w1, t, "app_stream_read"), s, "read", t),
                         w1.streams[s].read_callback,
                         s, "read", t.result, t.n, w1.streams[s].read_user_data, o)

\* the timeout callback that leaves the readiness interest registered
ReadTimeoutKeepIo(w, s, o) ==
    IF ~w.streams[s].alive THEN UseAfterFree(w, s)
    ELSE LET w1 == [w EXCEPT !.streams[s].read_io_id = 0, !.streams[s].read_timeout_id = 0]
         IN InvokeStream(w1, w1.streams[s].read_callback, s, "read", APP_RESULT_TIMEOUT, 0,
                         w1.streams[s].read_user_data, o)

read_timeout_callback(w, s, o) ==
    IF ~w.streams[s].alive THEN UseAfterFree(w, s)
    ELSE LET w1 == [app_event_unregister_io(w, w.streams[s].read_io_id) EXCEPT
                       !.streams[s].read_io_id = 0, !.streams[s].read_timeout_id = 0]
         IN InvokeStream(w1, w1.streams[s].read_callback, s, "read", APP_RESULT_TIMEOUT, 0,
                         w1.streams[s].read_user_data, o)

write_io_callback(w, events, s, o) ==
    IF ~w.streams[s].alive THEN UseAfterFree(w, s)
    ELSE LET w1 == [app_event_unregister_timer(w, w.streams[s].write_timeout_id) EXCEPT
                       !.streams[s].write_io_id = 0, !.streams[s].write_timeout_id = 0]
             t == Transfer(events, APP_EVENT_OUT, o.sys)
         IN InvokeStream(GhostAgain(GhostTransient(w1, t, "app_stream_write"), s, "write", t),
                         w1.streams[s].write_callback,
                         s, "write", t.result, t.n, w1.streams[s].write_user_data, o)

\* the timeout callback that leaves write_io_id as it is
WriteTimeoutKeepsIoId(w, s, o) ==
    IF ~w.streams[s].alive THEN UseAfterFree(w, s)
    ELSE LET w1 == [app_event_unregister_io(w, w.streams[s].write_io_id) EXCEPT
                       !.streams[s].write_timeout_id = 0]
         IN InvokeStream(w1, w1.streams[s].write_callback, s, "write", APP_RESULT_TIMEOUT, 0,
                         w1.streams[s].write_user_data, o)

write_timeout_callback(w, s, o) ==
    IF ~w.streams[s].alive THEN UseAfterFree(w, s)
    ELSE LET w1 == [app_event_unregister_io(w, w.streams[s].write_io_id) EXCEPT
                       !.streams[s].write_io_id = 0, !.streams[s].write_timeout_id = 0]
         IN InvokeStream(w1, w1.streams[s].write_callback, s, "write", APP_RESULT_TIMEOUT, 0,
                         w1.streams[s].write_user_data, o)

-----------------------------------------------------------------------------
(* app-service.c, the service *)

AtCapacityOffByOne(service_) == service_.session_count > service_.max_connections

\* reject connection if max sessions has been reached
AtCapacity(service_) == service_.session_count >= service_.max_connections

schedule_accept(w) ==
    IF w.service.listen_id # 0
    THEN Abort(w, "schedule_accept", FALSE)
    ELSE LET w1 == app_event_register_io(w, w.service.listen_socket, {APP_EVENT_IN},
                                         "accept_callback", 0)
         IN [w1 EXCEPT !.service.listen_id = w1.m_id_counter]

\* link session record into service's list on success or destroy on failure
\* w4: the world create_session_cb returned in, its result in ret
LinkSession(w4, si) ==
    LET w5 == [w4 EXCEPT !.sessions[si].object = w4.ret,
                         !.sessions[si].g_object = w4.ret]
        last == w5.service.last_session
        w6 == IF last # 0
              THEN [w5 EXCEPT !.sessions[last].next = si]
              ELSE [w5 EXCEPT !.service.first_session = si]
    IN IF w4.aborted THEN w4
       ELSE IF w5.sessions[si].object # 0
       THEN [w6 EXCEPT !.sessions[si].next = 0,
                       !.sessions[si].prev = last,
                       !.service.last_session = si,
                       !.service.session_count = @ + 1]
       ELSE cleanup_session(w5, si)

\* service->create_session_cb(service, &session_internal->ctx, service->user_data)
InvokeCreate(w, callback, ctx, o) ==
    CASE callback = "session_create_callback" -> session_create_callback(w, ctx, o)
      [] OTHER -> user_create_callback(w, ctx, o)

\* create session object, w2: the world app_stream_create returned in
CreateObject(w2, si, o) ==
    LinkSession(InvokeCreate([w2 EXCEPT !.sessions[si].stream = Len(w2.streams)],
                             w2.service.create_session_cb, si, o), si)

\* the branch of accept_callback that creates the session record
NewSession(w, client_socket, o) ==
    LET si == Len(w.sessions) + 1
        w1 == [w EXCEPT !.sessions = Append(@,
                  [allocated |-> TRUE, service |-> o.mem, stream |-> 0, prev |-> 0,
                   next |-> 0, client_socket |-> client_socket, object |-> 0,
                   g_object |-> 0, g_closed |-> 0, g_destroys |-> 0])]
    IN CreateObject(app_stream_create(w1, client_socket, client_socket), si, o)

\* ghost fields of one accepted connection: w the world accept(2) returned
\* in, wb the world the branch taken for client_socket left
Accepted(w, wb, client_socket) ==
    LET full == w.service.session_count >= w.service.max_connections
    IN [wb EXCEPT !.g_rejects = IF full THEN @ + 1 ELSE @,
                  !.g_overflow = IF full /\ (\/ Len(wb.streams) # Len(w.streams)
                                             \/ Len(wb.lua) # Len(w.lua)
                                             \/ client_socket \in wb.open_fds)
                                 THEN @ \cup {client_socket} ELSE @]

\* the branch of accept_callback taken when APP_EVENT_IN is reported
AcceptConnection(w, o) ==
    LET r == RetryEINTR(o.sys, 1) IN
    IF r.ret < 0
    THEN [w EXCEPT !.pending = IF @ > 0 THEN @ - 1 ELSE @]
    ELSE LET client_socket == NewFd(w)
             wa == [w EXCEPT !.pending = @ - 1,
                             !.open_fds = @ \cup {client_socket},
                             !.socks[client_socket] = "open"]
         IN Accepted(w, IF AtCapacity(wa.service)
                        THEN close_socket(wa, client_socket)
                        ELSE NewSession(wa, client_socket, o),
                     client_socket)

\* never waiting for the next connection event
NoWaitForConnection(w1) ==
    IF w1.aborted THEN w1 ELSE [w1 EXCEPT !.service.listen_id = 0]

\* wait for next connection event, w1: the world the connection event left
WaitForConnection(w1) ==
    IF w1.aborted THEN w1
    ELSE schedule_accept([w1 EXCEPT !.service.listen_id = 0])

\* the branch an execution of accept_callback takes up to the create callback
AcceptBranch(w, events, o) ==
    IF APP_EVENT_IN \notin events THEN "none"
    ELSE IF RetryEINTR(o.sys, 1).ret < 0 THEN "failed"
    ELSE IF AtCapacity(w.service) THEN "full"
    ELSE "session"

\* ghost fields of one execution: w the world it began in, w2 the world it
\* returns in
AcceptReturned(w, w2, events, o) ==
    IF w2.aborted THEN w2
    ELSE [w2 EXCEPT !.service.g_accepts = @ \cup
             {[branch |-> IF AcceptBranch(w, events, o) = "session"
                             /\ w2.service.session_count = w.service.session_count
                          THEN "refused" ELSE AcceptBranch(w, events, o),
               count |-> w2.service.session_count - w.service.session_count,
               records |-> Len(w2.sessions) - Len(w.sessions),
               same |-> /\ w2.sessions = w.sessions
                        /\ w2.service.first_session = w.service.first_session
                        /\ w2.service.last_session = w.service.last_session]}]

\* user_data points to the service: freed, if app_service_destroy has run
accept_callback(w, events, user_data, o) ==
    IF ~w.service.alive
    THEN [w EXCEPT !.service.g_stray = TRUE, !.aborted = TRUE]
    ELSE AcceptReturned(w, WaitForConnection(IF APP_EVENT_IN \in events
                                             THEN AcceptConnection(w, o) ELSE w),
                        events, o)

\* the first of inet_ntop(), socket(), bind() and listen() that fails, or "ok"
StartOutcomes == {"ok", "inet_ntop", "socket", "bind", "listen"}

\* what socket() returned
SocketMade(w, start) ==
    IF start = "socket" THEN [w EXCEPT !.ret = -1]
    ELSE [w EXCEPT !.open_fds = @ \cup {ListenSocket}, !.ret = ListenSocket]

\* the listening socket is left open when bind() or listen() fails
NewFailedKeepSocket(w, start, listen_socket) ==
    [w EXCEPT !.service.g_start = start, !.ret = NULL]

\* log the error, close_socket(listen_socket), return NULL
NewFailed(w, start, listen_socket) ==
    [close_socket(w, listen_socket) EXCEPT !.service.g_start = start, !.ret = NULL]

\* start: the outcome of the calls that open the listening socket; the
\* service is left in w.service, alive unless NULL is returned
app_service_new(w, start, max_conns, create_session_cb, destroy_session_cb) ==
    IF start = "inet_ntop" THEN [w EXCEPT !.service.g_start = start, !.ret = NULL]
    ELSE LET w1 == SocketMade(w, start) IN
         IF w1.ret < 0 \/ start \in {"bind", "listen"}
         THEN NewFailed(w1, start, w1.ret)
         ELSE schedule_accept([w1 EXCEPT
                  !.service = [alive |-> TRUE, max_connections |-> max_conns,
                               create_session_cb |-> create_session_cb,
                               destroy_session_cb |-> destroy_session_cb,
                               g_destroying |-> FALSE, g_stray |-> FALSE, g_accepts |-> {},
                               g_start |-> start,
                               listen_socket |-> w1.ret, listen_id |-> 0,
                               first_session |-> 0, last_session |-> 0,
                               session_count |-> 0]])

\* while(service->last_session) app_service_close_session(...)
RECURSIVE DestroyAllSessions(_)
DestroyAllSessions(w) ==
    IF w.aborted \/ w.service.last_session = 0 THEN w
    ELSE DestroyAllSessions(app_service_close_session(w, w.service.last_session))

\* cancel any listen events, close listening socket, destroy service object
\* w1: the world the last app_service_close_session returned in
StopListening(w1) ==
    IF w1.aborted THEN w1
    ELSE [close_socket(app_event_unregister_io(w1, w1.service.listen_id),
                       w1.service.listen_socket) EXCEPT
             !.service.listen_id = 0,
             !.service.listen_socket = NULL,
             !.service.alive = FALSE]

app_service_destroy(w) ==
    IF ~w.service.alive THEN w      \* if ( service )
    ELSE StopListening(DestroyAllSessions([w EXCEPT !.service.g_destroying = TRUE]))

-----------------------------------------------------------------------------
(* app-lua-service.c, the service *)

\* registered with atexit
cleanup(w) == app_service_destroy(w)

\* The Lua console passes APP_LUA_SERVICE_MAX_CONNECTIONS; the model takes
\* MaxConnections in its place.
\* When NULL is returned the loop is stopped, and exit() runs cleanup.
app_lua_service_init(w, start) ==
    app_service_new(w, start, MaxConnections,
                    "session_create_callback", "session_destroy_callback")

-----------------------------------------------------------------------------
(* app_event_poll, one step per loop iteration *)

InvokeIo(w, callback, events, user_data, o) ==
    CASE callback = "user_io_callback" -> user_io_callback(w, events, user_data, o)
      [] callback = "read_io_callback" -> read_io_callback(w, events, user_data, o)
      [] callback = "write_io_callback" -> write_io_callback(w, events, user_data, o)
      [] callback = "accept_callback" -> accept_callback(w, events, user_data, o)
      [] OTHER -> w

InvokeTimer(w, callback, user_data, o) ==
    CASE callback = "user_timer_callback" -> user_timer_callback(w, user_data, o)
      [] callback = "read_timeout_callback" -> read_timeout_callback(w, user_data, o)
      [] callback = "write_timeout_callback" -> write_timeout_callback(w, user_data, o)
      [] callback = "close_session_callback" -> close_session_callback(w, user_data, o)
      [] OTHER -> w

AllStreams(w) == 1 .. Len(w.streams)

\* outcomes of accept(2): a descriptor only when a connection is waiting
AcceptSeqs(w) ==
    LET final == {Sys(-1, "ECONNABORTED")} \cup
                 (IF w.pending > 0 /\ ClientFds \ w.open_fds # {}
                  THEN {Sys(1, "none")} ELSE {})
    IN {<<x>> : x \in final} \cup {<<Sys(-1, "EINTR"), x>> : x \in final}

\* completion callback stored in the stream a reactor callback belongs to
Completion(w, callback, s) ==
    IF s \in AllStreams(w) /\ w.streams[s].alive
    THEN IF callback = "read_io_callback" \/ callback = "read_timeout_callback"
         THEN w.streams[s].read_callback
         ELSE w.streams[s].write_callback
    ELSE "NULL"

\* the inputs a callback may draw on
Choices(w, callback, user_data) ==
    CASE callback \in {"user_io_callback", "user_timer_callback"} -> UserOps
      [] callback \in {"read_io_callback", "write_io_callback"} ->
             IF Completion(w, callback, user_data) = "read_callback"
             THEN {[NoOp EXCEPT !.sys = q, !.usys = u] :
                      q \in SysSeqs, u \in {<< >>} \cup LuaWrites}
             ELSE WithSys({NoOp} \cup StreamOps(AllStreams(w)), SysSeqs)
      [] callback \in {"read_timeout_callback", "write_timeout_callback"} ->
             IF Completion(w, callback, user_data) = "read_callback"
             THEN {NoOp}
             ELSE {NoOp} \cup StreamOps(AllStreams(w))
      [] callback = "accept_callback" ->
             IF w.service.create_session_cb = "session_create_callback"
             THEN {[NoOp EXCEPT !.sys = q, !.usys = u, !.mem = m] :
                      q \in AcceptSeqs(w), u \in LuaWrites, m \in Mems}
             ELSE {[NoOp EXCEPT !.sys = q, !.mem = m, !.create = c] :
                      q \in AcceptSeqs(w), m \in Mems, c \in {"object", "NULL"}}
      [] OTHER -> {NoOp}

\* garbage collection, reset of revents, timeout computation and poll(2)
PollWait(w, block, cond, wait) ==
    LET timeout == PollTimeout(w, block)
        ready == \E i \in 1 .. Len(w.m_io_pfds) :
                     Revents(w.m_io_pfds[i], cond[w.m_io_pfds[i].fd]) # {}
    IN CASE timeout = 0 -> wait = 0
         [] timeout < 0 -> ready
         [] OTHER -> (ready /\ wait <= timeout) \/ (~ready /\ wait = timeout)

\* ghost field: the descriptor of a stream is readable after its last read
\* has completed, and no read has been issued since
ReadableLate(w, cond) ==
    [s \in 1 .. Len(w.streams) |->
        IF /\ w.streams[s].alive /\ ~w.streams[s].g_read_out
           /\ w.streams[s].g_read_done = 1
           /\ APP_EVENT_IN \in cond[w.streams[s].read_fd]
        THEN [w.streams[s] EXCEPT !.g_read_late = TRUE]
        ELSE w.streams[s]]

app_event_poll_begin(w, block, cond, wait) ==
    LET w1 == gc_timers(gc_io(w)) IN
    [w1 EXCEPT !.streams = ReadableLate(w, cond),
               !.g_poll = [block |-> block, timeout |-> PollTimeout(w1, block),
                           running |-> TRUE],
               !.m_io_pfds = [i \in 1 .. Len(w1.m_io_pfds) |->
                                 [w1.m_io_pfds[i] EXCEPT
                                     !.revents = Revents(w1.m_io_pfds[i], cond[w1.m_io_pfds[i].fd])]],
               !.m_timer_records = [i \in 1 .. Len(w1.m_timer_records) |->
                                       [w1.m_timer_records[i] EXCEPT
                                           !.g_due = w1.m_timer_records[i].expiry <= w.clock]],
               !.clock = @ + wait,
               !.pc = "io",
               !.poll_i = 1]

IoFiresIgnoringId(rec, pfd) == pfd.revents # {}

\* dispatching only for the events the interest asked for
IoFiresRequested(rec, pfd) == pfd.revents \cap pfd.events # {} /\ rec.id # 0

IoFires(rec, pfd) == pfd.revents # {} /\ rec.id # 0

MarkIoKeep(w, i) == w

MarkIo(w, i) == [w EXCEPT !.m_io_records[i].id = 0]

TimerExpiredStrict(rec, t_now) == rec.expiry < t_now

TimerExpired(rec, t_now) == rec.expiry <= t_now

TimerFires(rec, t_now) == TimerExpired(rec, t_now) /\ rec.id # 0

\* the timer loop without "mark timer record for garbage collection"
MarkTimerKeep(w, i) == w

MarkTimer(w, i) == [w EXCEPT !.m_timer_records[i].id = 0]

\* one loop over both tables: the timer at the index is dispatched with the
\* I/O record at the index
PollIoWithTimer(w, o) ==
    LET i == w.poll_i
        w0 == IF i <= Len(w.m_timer_records)
                 /\ TimerFires(w.m_timer_records[i], app_event_clock(w))
              THEN [MarkTimer(w, i) EXCEPT !.m_timer_records[i].g_fired = @ + 1]
              ELSE w
    IN IF IoFires(w.m_io_records[i], w.m_io_pfds[i])
       THEN [InvokeIo([MarkIo(w0, i) EXCEPT !.m_io_records[i].g_fired = @ + 1,
                                            !.ctx = "io_cb"],
                      w.m_io_records[i].callback, w.m_io_pfds[i].revents,
                      w.m_io_records[i].user_data, o) EXCEPT !.poll_i = i + 1]
       ELSE [w0 EXCEPT !.poll_i = i + 1]

app_event_poll_io(w, o) ==
    LET i == w.poll_i
        rec == w.m_io_records[i]
        pfd == w.m_io_pfds[i]
    IN IF IoFires(rec, pfd)
       THEN LET w0 == [MarkIo(w, i) EXCEPT
                          !.m_io_records[i].g_fired = @ + 1,
                          !.g_live_in_cb = IF MarkIo(w, i).m_io_records[i].id # 0
                                           THEN @ \cup {rec.gid} ELSE @,
                          !.g_after_unreg = IF rec.g_unreg THEN @ \cup {rec.gid} ELSE @,
                          !.g_reentered = IF rec.g_new THEN @ \cup {rec.gid} ELSE @,
                          !.ctx = "io_cb"]
                w1 == InvokeIo(w0, rec.callback, pfd.revents, rec.user_data, o)
            IN [w1 EXCEPT !.poll_i = i + 1]
       ELSE [w EXCEPT !.poll_i = i + 1]

app_event_poll_timer(w, o) ==
    LET i == w.poll_i
        rec == w.m_timer_records[i]
    IN IF TimerFires(rec, w.now)
       THEN LET w0 == [MarkTimer(w, i) EXCEPT
                          !.m_timer_records[i].g_fired = @ + 1,
                          !.g_live_in_cb = IF MarkTimer(w, i).m_timer_records[i].id # 0
                                           THEN @ \cup {rec.gid} ELSE @,
                          !.g_after_unreg = IF rec.g_unreg THEN @ \cup {rec.gid} ELSE @,
                          !.g_early = IF w.clock < rec.expiry THEN @ \cup {rec.gid} ELSE @,
                          !.g_same_poll = IF rec.g_armed THEN @ \cup {rec.gid} ELSE @,
                          !.ctx = "timer_cb"]
                w1 == InvokeTimer(w0, rec.callback, rec.user_data, o)
            IN [w1 EXCEPT !.poll_i = i + 1]
       ELSE [w EXCEPT !.poll_i = i + 1]

\* return from app_event_poll; the ghost fields of the call are settled
app_event_poll_end(w) ==
    [w EXCEPT !.pc = "idle",
              !.poll_i = 1,
              !.now = 0,
              !.g_missed = @ \cup {w.m_timer_records[i].gid :
                                     i \in {j \in 1 .. Len(w.m_timer_records) :
                                               /\ w.m_timer_records[j].id # 0
                                               /\ w.m_timer_records[j].g_due}},
              !.lua = [l \in 1 .. Len(w.lua) |-> [w.lua[l] EXCEPT !.g_req = FALSE]],
              !.m_io_records = [i \in 1 .. Len(w.m_io_records) |->
                                   [w.m_io_records[i] EXCEPT !.g_new = FALSE]],
              !.m_timer_records = [i \in 1 .. Len(w.m_timer_records) |->
                                      [w.m_timer_records[i] EXCEPT !.g_due = FALSE,
                                                                   !.g_armed = FALSE]]]

-----------------------------------------------------------------------------
(* Actions *)

Running == ~aborted

Tick ==
    /\ Running
    /\ clock < MaxClock
    /\ Commit([World EXCEPT !.clock = @ + 1])

\* code outside any callback calls the reactor between two poll calls
UserCall ==
    /\ Running /\ pc = "idle"
    /\ \E o \in UserOps \ {NoOp} :
          /\ m_id_counter + IdsNeeded(o) <= MaxId
          /\ Commit(ApplyUserOp(World, o))

\* app_event_poll up to the return of poll(2); conds: what poll(2) may report
\* w: the world the call starts from
PollBeginWith(w, blocks, conds) ==
    /\ Running /\ pc = "idle"
    /\ \E block \in blocks, cond \in conds, wait \in 0 .. MaxClock - clock :
          /\ PollWait(gc_timers(gc_io(w)), block, cond, wait)
          /\ Commit(app_event_poll_begin(w, block, cond, wait))

PollBegin == PollBeginWith(World, BOOLEAN, [Fds -> FdConds])

\* poll(2) fails with an error other than EINTR: fatal
PollError ==
    /\ Running /\ pc = "idle"
    /\ Commit(Abort(World, "app_event_poll", FALSE))

\* the callback makes the system calls whose outcomes a choice holds
MakesCalls(callback, revents) ==
    CASE callback = "read_io_callback" ->
             APP_EVENT_IN \in revents /\ APP_EVENT_HUP \notin revents
      [] callback = "write_io_callback" ->
             APP_EVENT_OUT \in revents /\ APP_EVENT_HUP \notin revents
      [] OTHER -> TRUE

\* what the callback of the I/O record rec can do: a choice is drawn only if
\* the callback is invoked, and outcomes of system calls only if it makes them
IoChoices(w, rec, pfd) ==
    IF ~IoFires(rec, pfd) THEN {NoOp}
    ELSE IF MakesCalls(rec.callback, pfd.revents)
    THEN Choices(w, rec.callback, rec.user_data)
    ELSE {o \in Choices(w, rec.callback, rec.user_data) : o.sys \in {<< >>, <<Sys(0, "none")>>}}

\* one iteration of the I/O dispatch loop; cap: last handle id of the model
PollIoWith(cap) ==
    /\ Running /\ pc = "io" /\ poll_i <= Len(m_io_records)
    /\ \E o \in IoChoices(World, m_io_records[poll_i], m_io_pfds[poll_i]) :
          /\ m_id_counter + IdsNeeded(o) <= cap
          /\ Usable(World, o)
          /\ Commit(app_event_poll_io(World, o))

PollIo == PollIoWith(MaxId)

PollIoDone ==
    /\ Running /\ pc = "io" /\ poll_i > Len(m_io_records)
    /\ Commit([World EXCEPT !.now = app_event_clock(World), !.pc = "timers", !.poll_i = 1])

\* one iteration of the timer dispatch loop
PollTimerWith(cap) ==
    /\ Running /\ pc = "timers" /\ poll_i <= Len(m_timer_records)
    /\ \E o \in IF TimerFires(m_timer_records[poll_i], now)
                 THEN Choices(World, m_timer_records[poll_i].callback,
                              m_timer_records[poll_i].user_data)
                 ELSE {NoOp} :
          /\ m_id_counter + IdsNeeded(o) <= cap
          /\ Usable(World, o)
          /\ Commit(app_event_poll_timer(World, o))

PollTimer == PollTimerWith(MaxId)

PollEnd ==
    /\ Running /\ pc = "timers" /\ poll_i > Len(m_timer_records)
    /\ Commit(app_event_poll_end(World))

NoAbort == [op |-> "none", outstanding |-> FALSE]

NoService ==
    [alive |-> FALSE, max_connections |-> 0, create_session_cb |-> "NULL",
     destroy_session_cb |-> "NULL", listen_socket |-> NULL, listen_id |-> 0,
     g_destroying |-> FALSE, g_stray |-> FALSE, g_accepts |-> {}, g_start |-> "none",
     first_session |-> 0, last_session |-> 0, session_count |-> 0]

\* the process before main() has run, descriptors fds open
Boot(fds) ==
    [m_id_counter |-> 0, m_io_records |-> << >>, m_io_pfds |-> << >>,
     m_timer_records |-> << >>, clock |-> 0, pc |-> "idle", poll_i |-> 1, now |-> 0,
     aborted |-> FALSE, streams |-> << >>, open_fds |-> fds,
     g_abort |-> NoAbort, g_double |-> {}, g_stale |-> {}, g_uaf |-> {},
     g_transient |-> {}, g_after_unreg |-> {}, g_early |-> {}, g_missed |-> {},
     g_live_in_cb |-> {}, g_reentered |-> {}, g_same_poll |-> {},
     service |-> NoService, sessions |-> << >>, lua |-> << >>,
     socks |-> << >>, pending |-> 0, g_connects |-> 0, g_rejects |-> 0, g_overflow |-> {},
     g_closes |-> {}, g_deref |-> {}, g_late |-> {},
     g_void |-> NoVoid, g_poll |-> NoPoll, g_sync |-> {}, g_again |-> NoAgain,
     g_wsync |-> {}, net_call |-> NoCall, options |-> NoOptions,
     ctx |-> "main", ret |-> 0]

Init == Launch(Boot(Fds))

Next ==
    \/ Tick
    \/ UserCall
    \/ PollBegin
    \/ PollError
    \/ PollIo
    \/ PollIoDone
    \/ PollTimer
    \/ PollEnd

Spec == Init /\ [][Next]_vars

-----------------------------------------------------------------------------
(* The stream and its caller *)

StreamConds == {{}, {APP_EVENT_IN}, {APP_EVENT_OUT}, {APP_EVENT_IN, APP_EVENT_OUT},
                {APP_EVENT_HUP}, {APP_EVENT_ERR},
                {APP_EVENT_IN, APP_EVENT_OUT, APP_EVENT_HUP}}

StreamCreate ==
    /\ Running /\ pc = "idle"
    /\ Len(streams) < MaxStreams
    /\ \E fd \in Fds : Commit(app_stream_create(World, fd, fd))

\* code outside any callback uses a stream between two poll calls
StreamCall ==
    /\ Running /\ pc = "idle"
    /\ \E o \in StreamOps(AllStreams(World)) :
          /\ m_id_counter + IdsNeeded(o) <= MaxStreamId
          /\ Usable(World, o)
          /\ Commit(ApplyUserOp(World, o))

StreamPollBegin == PollBeginWith(World, BOOLEAN, [Fds -> StreamConds])

StreamPollIo == PollIoWith(MaxStreamId)

StreamPollTimer == PollTimerWith(MaxStreamId)

StreamInit == Launch(Boot(Fds))

StreamNext ==
    \/ Tick
    \/ StreamCreate
    \/ StreamCall
    \/ StreamPollBegin
    \/ PollError
    \/ StreamPollIo
    \/ PollIoDone
    \/ StreamPollTimer
    \/ PollEnd

StreamSpec == StreamInit /\ [][StreamNext]_vars

-----------------------------------------------------------------------------
(* The Lua console service, its peers and the main loop                    *)
(*                                                                         *)
(* Handle ids are 64-bit and are only ever compared for equality.  So that *)
(* a loop that registers one interest per poll call revisits a state, a    *)
(* poll call of this specification starts from the world in which the      *)
(* records marked removed are collected (as the call does first anyway)    *)
(* and the live ids are renamed to 1 .. k in the order they were issued.   *)
(* HeldIdsLive states what makes the renaming invisible to the program.    *)

LiveIds(w) ==
    ({w.m_io_records[i].id : i \in 1 .. Len(w.m_io_records)}
     \cup {w.m_timer_records[i].id : i \in 1 .. Len(w.m_timer_records)}) \ {0}

Rank(S, id) == IF id \in S THEN Cardinality({x \in S : x <= id}) ELSE 0

RenumberIds(w) ==
    LET S == LiveIds(w) IN
    [w EXCEPT
        !.m_id_counter = Cardinality(S),
        !.m_io_records = [i \in 1 .. Len(@) |->
                             [@[i] EXCEPT !.id = Rank(S, @), !.gid = Rank(S, @)]],
        !.m_timer_records = [i \in 1 .. Len(@) |->
                                [@[i] EXCEPT !.id = Rank(S, @), !.gid = Rank(S, @)]],
        !.streams = [i \in 1 .. Len(@) |->
                        [@[i] EXCEPT !.read_io_id = Rank(S, @),
                                     !.read_timeout_id = Rank(S, @),
                                     !.write_io_id = Rank(S, @),
                                     !.write_timeout_id = Rank(S, @)]],
        !.lua = [i \in 1 .. Len(@) |-> [@[i] EXCEPT !.close_id = Rank(S, @)]],
        !.service.listen_id = Rank(S, @)]

Canonical(w) == RenumberIds(gc_timers(gc_io(w)))

AllFds == {ListenSocket} \cup ClientFds

\* what poll(2) reports for descriptor fd whatever the peers do next: a
\* waiting connection, a hang-up and an error stay until the program acts
SureCond(fd) ==
    IF fd = ListenSocket THEN (IF pending > 0 THEN {APP_EVENT_IN} ELSE {})
    ELSE IF socks[fd] = "hup" THEN {APP_EVENT_IN, APP_EVENT_HUP}
    ELSE IF socks[fd] = "err" THEN {APP_EVENT_ERR}
    ELSE {}

\* what poll(2) reports for the sockets in their present condition: the peers
\* in data of the open connections have sent input, and the listening socket
\* may report an error (lerr)
SockConds ==
    {[fd \in AllFds |-> IF fd \in data THEN {APP_EVENT_IN}
                        ELSE IF fd = ListenSocket /\ lerr THEN {APP_EVENT_ERR}
                        ELSE SureCond(fd)] :
        data \in SUBSET {c \in ClientFds : socks[c] = "open"}, lerr \in BOOLEAN}

\* a peer connects
Connect ==
    /\ Running /\ pc = "idle"
    /\ service.alive
    /\ g_connects < MaxConnects
    /\ pending < MaxPending
    /\ Commit([World EXCEPT !.pending = @ + 1, !.g_connects = @ + 1])

\* the peer of an accepted connection hangs up, or the connection fails;
\* the socket stays in that condition until it is closed
PeerFails ==
    /\ Running /\ pc = "idle"
    /\ \E c \in ClientFds, how \in {"hup", "err"} :
          /\ socks[c] = "open"
          /\ Commit([World EXCEPT !.socks[c] = how])

\* app_loop_run: do { app_event_poll(true); } while(m_run_flag)
ServicePollBegin == PollBeginWith(Canonical(World), {TRUE}, SockConds)

ServicePollIo == PollIoWith(INT_MAX)

ServicePollTimer == PollTimerWith(INT_MAX)

\* the loop has been stopped: exit() runs cleanup
ServiceExit ==
    /\ Running /\ pc = "idle"
    /\ Commit([cleanup(World) EXCEPT !.pc = "exited"])

\* the process with no descriptor open and no connection made
NoPeers == [Boot({}) EXCEPT !.socks = [c \in ClientFds |-> "free"]]

\* the service is the Lua console, or that of a caller with callbacks of its own
\* a caller other than the Lua console destroys its service and goes on
ServiceDestroy ==
    /\ Running /\ pc = "idle"
    /\ service.alive /\ service.create_session_cb = "user_create_callback"
    /\ Commit(app_service_destroy(World))

ServiceInit ==
    \E start \in StartOutcomes :
        \/ Launch(app_lua_service_init(NoPeers, start))
        \/ Launch(app_service_new(NoPeers, start, MaxConnections,
                                  "user_create_callback", "user_destroy_callback"))

ServiceNext ==
    \/ Connect
    \/ PeerFails
    \/ ServicePollBegin
    \/ PollError
    \/ ServicePollIo
    \/ PollIoDone
    \/ ServicePollTimer
    \/ PollEnd
    \/ ServiceDestroy
    \/ ServiceExit

ServiceSpec == ServiceInit /\ [][ServiceNext]_vars

\* A service of a caller other than the Lua console, with room for MaxListed
\* sessions.  The caller registers no timer and its sessions no interest, so
\* the timer loop of app_event_poll has nothing to dispatch.
ListConnect ==
    /\ Running /\ pc = "idle"
    /\ service.alive
    /\ g_connects < MaxListConnects
    /\ pending < MaxPending
    /\ Commit([World EXCEPT !.pending = @ + 1, !.g_connects = @ + 1])

\* the caller closes one of its sessions
SessionClose ==
    /\ Running /\ pc = "idle"
    /\ service.alive /\ service.create_session_cb = "user_create_callback"
    /\ \E si \in 1 .. Len(sessions) :
          /\ sessions[si].allocated /\ sessions[si].object # 0
          /\ Commit(app_service_close_session(World, si))

ListInit ==
    Launch(app_service_new(NoPeers, "ok", MaxListed,
                           "user_create_callback", "user_destroy_callback"))

ListNext ==
    \/ ListConnect
    \/ PeerFails
    \/ ServicePollBegin
    \/ PollError
    \/ ServicePollIo
    \/ PollIoDone
    \/ PollEnd
    \/ ServiceDestroy
    \/ SessionClose
    \/ ServiceExit

ListSpec == ListInit /\ [][ListNext]_vars

\* poll(2) of a poll call made now returns: a timer has expired or a registered
\* descriptor is ready
PollReady ==
    \/ \E i \in 1 .. Len(m_timer_records) :
          m_timer_records[i].id # 0 /\ m_timer_records[i].expiry <= clock
    \/ \E i \in 1 .. Len(m_io_records) :
          m_io_records[i].id # 0 /\ Revents(m_io_pfds[i], SureCond(m_io_pfds[i].fd)) # {}

\* the main loop is inside a poll call that has returned from poll(2), or
\* between two poll calls of which the next will not block for ever
LoopCanStep ==
    /\ Running
    /\ pc \in {"io", "timers"} \/ (pc = "idle" /\ PollReady)

\* a step of the main loop: each changes pc or poll_i, and no step of a peer does
LoopStep ==
    /\ LoopCanStep
    /\ pc' \in {"idle", "io", "timers", "exited"}
    /\ poll_i' \in 1 .. (Len(m_io_records) + Len(m_timer_records) + 2)
    /\ <<pc', poll_i'>> # <<pc, poll_i>>

\* app_loop_run calls app_event_poll again and again and a poll call that has
\* returned from poll(2) runs to its end: the main loop does not stop while it
\* can make a step.  Nothing is assumed of the peers.
ServiceFairSpec == ServiceSpec /\ WF_<<pc, poll_i>>(LoopStep)

-----------------------------------------------------------------------------
(* app-net-utils.c.  A string is a sequence of characters; a long is kept  *)
(* as its sign and its magnitude in digits of 16 bits, least significant   *)
(* first, because its values exceed the integers of the model checker.     *)

APP_RESULT_INVALID_ARG == "INVALID_ARG"

\* char str_copy[256]
StrCopySize == 256

MaxPortLen == 3     \* length of the port texts drawn from PortChars

Limb == 2^16

NLimbs == 5

DigitChars == <<"0", "1", "2", "3", "4", "5", "6", "7", "8", "9">>

isdigit(c) == \E d \in 1 .. Len(DigitChars) : DigitChars[d] = c

DigitOf(c) == (CHOOSE d \in 1 .. Len(DigitChars) : DigitChars[d] = c) - 1

isspace(c) == c = " "

ZeroMag == [i \in 1 .. NLimbs |-> 0]

\* m * 10 + carry, from digit i upwards
RECURSIVE MulAddFrom(_, _, _)
MulAddFrom(m, i, carry) ==
    IF i > NLimbs THEN << >>
    ELSE <<(m[i] * 10 + carry) % Limb>> \o MulAddFrom(m, i + 1, (m[i] * 10 + carry) \div Limb)

MulAdd10(m, d) == MulAddFrom(m, 1, d)

\* a > b, compared from digit i downwards
RECURSIVE GreaterFrom(_, _, _)
GreaterFrom(a, b, i) ==
    IF i = 0 THEN FALSE
    ELSE IF a[i] # b[i] THEN a[i] > b[i]
    ELSE GreaterFrom(a, b, i - 1)

Greater(a, b) == GreaterFrom(a, b, NLimbs)

\* the magnitude of LONG_MIN (neg) or LONG_MAX for a long of bits bits
LongLimit(bits, neg) ==
    [i \in 1 .. NLimbs |->
        IF neg THEN (IF i = bits \div 16 THEN Limb \div 2 ELSE 0)
        ELSE IF i < bits \div 16 THEN Limb - 1
        ELSE IF i = bits \div 16 THEN Limb \div 2 - 1
        ELSE 0]

\* the largest magnitude the digits hold
MagLimit == [i \in 1 .. NLimbs |-> Limb - 1]

\* the digits of text from index i on, accumulated into m, which has NLimbs
\* digits, and clamped to limit
RECURSIVE Accumulate(_, _, _, _)
Accumulate(text, i, m, limit) ==
    IF Len(m) # NLimbs \/ i > Len(text) \/ ~isdigit(text[i]) THEN [mag |-> m, end |-> i]
    ELSE Accumulate(text, i + 1,
                    IF Greater(MulAdd10(m, DigitOf(text[i])), limit) THEN limit
                    ELSE MulAdd10(m, DigitOf(text[i])),
                    limit)

\* the index of the first character from i on that is no white space
SkipSpace(text, i) ==
    IF \E j \in i .. Len(text) : ~isspace(text[j])
    THEN CHOOSE j \in i .. Len(text) :
             ~isspace(text[j]) /\ \A k \in i .. j - 1 : isspace(text[k])
    ELSE Len(text) + 1

\* strtol(text, &endptr, 10) with a long of bits bits: white space, an
\* optional sign, decimal digits; a value out of range is LONG_MAX or
\* LONG_MIN; without a digit the value is 0 and endptr is text.  end is the
\* index endptr points to, Len(text) + 1 for the terminating null.
strtol(text, bits) ==
    LET sign == SkipSpace(text, 1)
        neg == sign <= Len(text) /\ text[sign] = "-"
        first == IF sign <= Len(text) /\ text[sign] \in {"+", "-"} THEN sign + 1 ELSE sign
        a == Accumulate(text, first, ZeroMag, LongLimit(bits, neg))
    IN IF a.end = first THEN [mag |-> ZeroMag, neg |-> FALSE, end |-> 1]
       ELSE [mag |-> a.mag, neg |-> neg, end |-> a.end]

\* the low 32 bits of the long, in two digits
Low32(v) ==
    IF ~v.neg THEN <<v.mag[1], v.mag[2]>>
    ELSE IF v.mag[1] = 0 /\ v.mag[2] = 0 THEN <<0, 0>>
    ELSE IF v.mag[1] = 0 THEN <<0, Limb - v.mag[2]>>
    ELSE <<Limb - v.mag[1], Limb - 1 - v.mag[2]>>

\* int port = (a long): the value is kept when an int can hold it, and is
\* otherwise the low 32 bits read as two's complement
LongToInt(v) ==
    IF Low32(v)[2] >= Limb \div 2
    THEN (Low32(v)[2] - Limb) * Limb + Low32(v)[1]
    ELSE Low32(v)[2] * Limb + Low32(v)[1]

\* strrchr(text, ':') for the text of length i, as an index, 0 for NULL
strrchr(text, i) ==
    IF \E j \in 1 .. i : text[j] = ":"
    THEN CHOOSE j \in 1 .. i : text[j] = ":" /\ \A k \in j + 1 .. i : text[k] # ":"
    ELSE 0

\* strncpy(str_copy, str, sizeof(str_copy) - 1); str_copy[sizeof(str_copy) - 1] = '\0'
strncpy(text, n) == SubSeq(text, 1, IF Len(text) < n THEN Len(text) ELSE n)

\* the two bytes of the port in network order
htons(port) == <<(port \div 256) % 256, port % 256>>

\* c: the call, with str, default_address (TRUE unless NULL), resolves:
\* gethostbyname finds the address, long_bits: the width of long of the build
\* the text of default_address where the caller passes one ("127.0.0.1",
\* app-options.c)
DefaultAddress == <<"1", "2", "7", ".", "0", ".", "0", ".", "1">>

\* inet_pton(AF_INET, address, &ip_addr) > 0: the address is in dotted-decimal
\* notation; of the addresses of the model's strings this one is
inet_pton(address) == address = DefaultAddress

\* ip_addr for the address text: inet_pton, or gethostbyname and h_addr;
\* Resolved(<<"0", ".", "0", ".", "0", ".", "0">>) is the address of ZeroSockaddr
Resolved(address) == <<"ip">> \o address

app_net_utils_str_to_addr(c) ==
    LET str_copy == strncpy(c.str, StrCopySize - 1)
        colon == strrchr(str_copy, Len(str_copy))
        port_str == SubSeq(str_copy, colon + 1, Len(str_copy))
        address == IF colon # 0 THEN SubSeq(str_copy, 1, colon - 1) ELSE DefaultAddress
        parsed == strtol(port_str, c.long_bits)
        port == LongToInt(parsed)
    IN IF colon = 0 /\ ~c.default_address
       THEN [c EXCEPT !.result = APP_RESULT_INVALID_ARG]
       ELSE IF parsed.end <= Len(port_str) \/ port < 1 \/ port > 65535
       THEN [c EXCEPT !.result = APP_RESULT_INVALID_ARG]
       ELSE IF ~inet_pton(address) /\ ~c.resolves
       THEN [c EXCEPT !.result = APP_RESULT_INVALID_ARG]
       ELSE [c EXCEPT !.result = APP_RESULT_OK, !.sin_port = htons(port),
                      !.sin_addr = Resolved(address)]

\* the callers' strings: port texts
PortChars == {"0", "1", "6", "-", "x"}

ShortTexts == UNION {[1 .. n -> PortChars] : n \in 0 .. MaxPortLen}

LongTexts ==
    {<<"6", "5", "5", "3", "5">>,
     <<"6", "5", "5", "3", "6">>,
     <<"2", "1", "4", "7", "4", "8", "3", "6", "4", "7">>,
     <<"2", "1", "4", "7", "4", "8", "3", "6", "4", "8">>,
     <<"4", "2", "9", "4", "9", "6", "7", "2", "9", "5">>,
     <<"4", "2", "9", "4", "9", "6", "7", "2", "9", "6">>,
     <<"4", "2", "9", "4", "9", "6", "7", "2", "9", "7">>,
     <<"4", "2", "9", "4", "9", "6", "7", "3", "7", "6">>,
     <<"4", "2", "9", "5", "0", "3", "2", "8", "3", "1">>,
     <<"4", "2", "9", "5", "0", "3", "2", "8", "3", "2">>,
     <<"-", "4", "2", "9", "4", "9", "6", "7", "2", "9", "5">>,
     <<"-", "4", "2", "9", "4", "9", "6", "7", "2", "1", "6">>,
     <<"9", "2", "2", "3", "3", "7", "2", "0", "3", "6", "8", "5", "4", "7", "7", "5", "8", "0", "7">>,
     <<"9", "2", "2", "3", "3", "7", "2", "0", "3", "6", "8", "5", "4", "7", "7", "5", "8", "0", "8">>,
     <<"1", "8", "4", "4", "6", "7", "4", "4", "0", "7", "3", "7", "0", "9", "5", "5", "1", "6", "1", "7">>,
     <<"+", "8", "0">>,
     <<" ", "8", "0">>,
     <<"8", "0", " ">>,
     <<"0", "8", "0", "8", "0">>}

\* a host name that leaves no room in str_copy for the whole port
LongHost == [i \in 1 .. StrCopySize - 5 |-> "h"]

\* a port text that fills str_copy
LongPort == [i \in 1 .. StrCopySize - 3 |-> " "] \o <<"8", "0">>

Strs ==
    {t : t \in ShortTexts \cup LongTexts}
    \cup {<<"h", ":">> \o t : t \in ShortTexts \cup LongTexts}
    \cup {<<"a", ":", "b", ":">> \o t : t \in {<<"8", "0">>, << >>}}
    \cup {LongPort, LongPort \o <<":", "9", "9">>}
    \cup {LongHost \o <<":">> \o t : t \in {<<"8", "0">>, <<"6", "5", "5", "3", "6">>}}

\* long has 64 bits (LP64) or 32 (ILP32, LLP64)
LongBits == {32, 64}

Calls ==
    {[NoCall EXCEPT !.str = t, !.default_address = d, !.resolves = r, !.long_bits = b] :
        t \in Strs, d \in BOOLEAN, r \in BOOLEAN, b \in LongBits}

StrToAddr ==
    /\ net_call.result = "none"
    /\ Commit([World EXCEPT !.net_call = app_net_utils_str_to_addr(net_call)])

NetInit == \E c \in Calls : Launch([Boot({}) EXCEPT !.net_call = c])

NetNext == StrToAddr

NetSpec == NetInit /\ [][NetNext]_vars

-----------------------------------------------------------------------------
(* app-options.c.  An argument is a string; the process ends in exit() with  *)
(* the values the statics have by then.                                      *)

MaxArgs == 3        \* arguments after argv[0]

APP_OPTIONS_DEFAULT_GDB_BIND_ADDRESS == DefaultAddress \o <<":", "3", "3", "3", "3">>
APP_OPTIONS_DEFAULT_LUA_BIND_ADDRESS == DefaultAddress \o <<":", "2", "3", "2", "3">>
APP_OPTIONS_DEFAULT_MACH_BIND_ADDRESS == DefaultAddress \o <<":", "4", "2", "4", "2">>
APP_OPTIONS_DEFAULT_ROM_SIZE == 4 * 1024 * 1024
APP_OPTIONS_MAX_ROM_SIZE == 256 * 1024 * 1024
APP_OPTIONS_DEFAULT_RAM_SIZE == 4 * 1024 * 1024
APP_OPTIONS_MAX_RAM_SIZE == 256 * 1024 * 1024

\* exit(code)
Exit(o, code) == [o EXCEPT !.state = code]

\* the text after the last '/' of path
get_exec_name(path) ==
    IF \E j \in 1 .. Len(path) : path[j] = "/"
    THEN SubSeq(path, 1 + (CHOOSE j \in 1 .. Len(path) :
                               path[j] = "/" /\ \A k \in j + 1 .. Len(path) : path[k] # "/"),
                Len(path))
    ELSE path

\* the flag character of "-c", "" (0) for any other argument; the characters
\* of the model's arguments are all above ' ' but the space
get_flag(arg) ==
    IF Len(arg) = 2 /\ arg[1] = "-" /\ arg[2] # " " THEN arg[2] ELSE ""

\* app_net_utils_str_to_addr(dest, str, default_address) as the options call
\* it: *dest is written when the result is APP_RESULT_OK
AddrWritten(c, dest) ==
    [result |-> c.result,
     addr |-> IF c.result = APP_RESULT_OK
              THEN [sin_family |-> "AF_INET", sin_port |-> c.sin_port,
                    sin_addr |-> c.sin_addr]
              ELSE dest]

StrToAddrInto(o, dest, str, default_address) ==
    AddrWritten(app_net_utils_str_to_addr(
                    [NoCall EXCEPT !.str = str, !.default_address = default_address,
                                   !.resolves = o.hosts, !.long_bits = o.long_bits]),
                dest)

\* parse_bind_address_operand without the exit: the result and *dest
parse_bind_address_operand(o, dest, arg) == StrToAddrInto(o, dest, arg, TRUE)

\* parse_mem_size_operand: strtol(arg, &endptr, 0) reads a text without a
\* leading 0, as the model's are, as a decimal; ok is FALSE where the function
\* exits
MemSize(size, max, arg) ==
    LET small == \A i \in 3 .. NLimbs : size.mag[i] = 0
        value == size.mag[2] * Limb + size.mag[1]
    IN IF \/ size.end <= Len(arg) \/ size.neg \/ ~small
          \/ size.mag[2] >= Limb \div 2
          \/ value < 1 \/ value > max \/ value % 4 # 0
       THEN [ok |-> FALSE, size |-> 0]
       ELSE [ok |-> TRUE, size |-> value]

parse_mem_size_operand(o, max, arg) == MemSize(strtol(arg, o.long_bits), max, arg)

\* the first loop: a terminating flag is among the arguments (operands of
\* other flags included)
Terminating(argv) ==
    \E i \in 2 .. Len(argv) : get_flag(argv[i]) \in {"h", "?", "v"}

\* the statics o after an iteration of the second loop and the index i of the
\* argument the next iteration looks at
Step(o, i) == [o |-> o, i |-> i]

\* cases 'g', 'l', 'm' after parse_bind_address_operand has returned r
BindAddress(o, i, flag, r) ==
    IF r.result # APP_RESULT_OK THEN Step(Exit(o, "EXIT_FAILURE"), i)
    ELSE IF flag = "g" THEN Step([o EXCEPT !.m_gdb_bind_address = r.addr], i + 2)
    ELSE IF flag = "l" THEN Step([o EXCEPT !.m_lua_bind_address = r.addr], i + 2)
    ELSE Step([o EXCEPT !.m_mach_bind_address = r.addr], i + 2)

\* cases 'r', 'a' after parse_mem_size_operand has returned r
MemorySize(o, i, flag, r) ==
    IF ~r.ok THEN Step(Exit(o, "EXIT_FAILURE"), i)
    ELSE IF flag = "r" THEN Step([o EXCEPT !.m_rom_size = r.size], i + 2)
    ELSE Step([o EXCEPT !.m_ram_size = r.size], i + 2)

\* one iteration of the second loop, at argument i (argv[0] is argv[1] here);
\* operand: check_for_operand passes
ProcessFlag(o, i, flag, operand) ==
    IF flag \in {"c", "f"} THEN
        IF ~operand THEN Step(Exit(o, "EXIT_FAILURE"), i)
        ELSE Step([o EXCEPT !.m_lua_input =
                      Append(@, [type |-> IF flag = "c"
                                          THEN "APP_OPTIONS_LUA_INPUT_TYPE_CHUNK"
                                          ELSE "APP_OPTIONS_LUA_INPUT_TYPE_FILE",
                                 data |-> i + 1])], i + 2)
    ELSE IF flag \in {"g", "l", "m"} THEN
        IF ~operand THEN Step(Exit(o, "EXIT_FAILURE"), i)
        ELSE BindAddress(o, i, flag,
                         parse_bind_address_operand(
                             o, IF flag = "g" THEN o.m_gdb_bind_address
                                ELSE IF flag = "l" THEN o.m_lua_bind_address
                                ELSE o.m_mach_bind_address, o.argv[i + 1]))
    ELSE IF flag = "q" THEN
        Step([o EXCEPT !.m_min_log_priority = "APP_LOG_PRIORITY_ERROR"], i + 1)
    ELSE IF flag \in {"r", "a"} THEN
        IF ~operand THEN Step(Exit(o, "EXIT_FAILURE"), i)
        ELSE MemorySize(o, i, flag,
                        parse_mem_size_operand(o, IF flag = "r" THEN APP_OPTIONS_MAX_ROM_SIZE
                                                  ELSE APP_OPTIONS_MAX_RAM_SIZE,
                                               o.argv[i + 1]))
    ELSE IF flag = "t" THEN Step([o EXCEPT !.m_testing_enabled = TRUE], i + 1)
    ELSE IF flag = "V" THEN
        Step([o EXCEPT !.m_min_log_priority = "APP_LOG_PRIORITY_DETAIL"], i + 1)
    ELSE IF flag # "" THEN Step(Exit(o, "EXIT_FAILURE"), i)            \* invalid option
    ELSE IF o.m_elf_path # 0 THEN Step(Exit(o, "EXIT_FAILURE"), i)     \* already specified
    ELSE Step([o EXCEPT !.m_elf_path = i], i + 1)

\* the second loop, from argument i to its end or to the exit
RECURSIVE ProcessArgs(_, _)
NextArg(st) == ProcessArgs(st.o, st.i)

ProcessArgs(o, i) ==
    IF o.state # "running" \/ i > Len(o.argv) THEN o
    ELSE NextArg(ProcessFlag(o, i, get_flag(o.argv[i]), i + 1 <= Len(o.argv)))

\* the statics with the defaults; gdb, lua_addr: the conversions of the two
\* default addresses, whose results are not looked at
Defaults(o, gdb, lua_addr) ==
    [o EXCEPT !.state = "running",
              !.m_exec_name = get_exec_name(o.argv[1]),
              !.m_gdb_bind_address = gdb.addr,
              !.m_lua_bind_address = lua_addr.addr,
              !.m_min_log_priority = "APP_LOG_PRIORITY_INFO",
              !.m_rom_size = APP_OPTIONS_DEFAULT_ROM_SIZE,
              !.m_ram_size = APP_OPTIONS_DEFAULT_RAM_SIZE,
              !.m_testing_enabled = FALSE]

\* ensure ELF path has been specified; done: the statics the second loop left
ElfChecked(done) ==
    IF done.state = "running" /\ done.m_elf_path = 0 THEN Exit(done, "EXIT_FAILURE")
    ELSE done

\* the two loops; set: the statics with the defaults
Loops(set) ==
    IF Terminating(set.argv) THEN Exit(set, "EXIT_SUCCESS")
    ELSE ElfChecked(ProcessArgs(set, 2))

\* app_options_init(argc, argv); state is "running" when it returns
app_options_init(o) ==
    Loops(Defaults(o,
                   StrToAddrInto(o, o.m_gdb_bind_address,
                                 APP_OPTIONS_DEFAULT_GDB_BIND_ADDRESS, FALSE),
                   StrToAddrInto(o, o.m_lua_bind_address,
                                 APP_OPTIONS_DEFAULT_LUA_BIND_ADDRESS, FALSE)))

\* the arguments of the model: every flag, an unknown one, a port, a host
\* with a port, a path, a text that is no size
Flags == {"g", "l", "m", "c", "f", "q", "r", "a", "t", "V", "h", "?", "v", "z"}

Args ==
    {<<"-", f>> : f \in Flags}
    \cup {<<"8", "0">>, <<"h", ":", "8", "1">>, <<"e", "l", "f">>, <<"6">>}

ExecPath == <<"b", "/", "x", "0">>

Argvs == UNION {{<<ExecPath>> \o a : a \in [1 .. n -> Args]} : n \in 0 .. MaxArgs}

AppOptionsInit ==
    /\ options.state = "args"
    /\ Commit([World EXCEPT !.options = app_options_init(options)])

OptionsInit ==
    \E argv \in Argvs, b \in LongBits, h \in BOOLEAN :
        Launch([Boot({}) EXCEPT !.options = [NoOptions EXCEPT !.argv = argv, !.long_bits = b,
                                                              !.hosts = h, !.state = "args"]])

OptionsNext == AppOptionsInit

OptionsSpec == OptionsInit /\ [][OptionsNext]_vars

-----------------------------------------------------------------------------
(* Properties of the reactor, checked under Spec *)

IoIdx == 1 .. Len(m_io_records)
TimerIdx == 1 .. Len(m_timer_records)

\* C1: the callback of an I/O handle is never invoked after the handle has been
\* unregistered, also when an earlier callback of the same poll pass
\* unregistered it while its readiness was already reported, and no I/O handle
\* is dispatched more than once by one poll call.
C1_NoFireAfterUnregister ==
    /\ g_after_unreg = {}
    /\ \A i \in IoIdx : m_io_records[i].g_unreg => m_io_records[i].g_fired = 0
    /\ \A i \in IoIdx : m_io_records[i].g_fired <= 1

\* the running I/O loop has passed a record that was reported ready and was
\* unregistered by an earlier callback of this pass: it did not fire
C1_Witness ==
    /\ pc = "io"
    /\ \E i \in IoIdx :
          /\ i < poll_i
          /\ m_io_records[i].g_unreg
          /\ ~m_io_records[i].g_new
          /\ m_io_pfds[i].revents # {}
          /\ m_io_records[i].g_fired = 0

\* C2: registrations are one-shot.  A handle (I/O or timer) is dispatched at
\* most once in its lifetime, its record is already marked removed when its
\* callback starts, and an interest registered by a callback is not dispatched
\* by the I/O loop of the poll call that is running.
C2_OneShot ==
    /\ \A i \in IoIdx :
          /\ m_io_records[i].g_fired <= 1
          /\ m_io_records[i].g_fired = 1 => m_io_records[i].id = 0
    /\ \A i \in TimerIdx :
          /\ m_timer_records[i].g_fired <= 1
          /\ m_timer_records[i].g_fired = 1 => m_timer_records[i].id = 0
    /\ g_live_in_cb = {}
    /\ g_reentered = {}

\* a callback re-registered an interest on the descriptor that fired; the I/O
\* loop has passed the new record, which is live and was not dispatched
C2_Witness ==
    /\ pc = "io"
    /\ \E i, j \in IoIdx :
          /\ i < j /\ j < poll_i
          /\ m_io_records[i].g_fired = 1
          /\ m_io_pfds[i].revents # {}
          /\ m_io_pfds[j].fd = m_io_pfds[i].fd
          /\ m_io_pfds[j].events = m_io_pfds[i].events
          /\ m_io_records[j].g_new
          /\ m_io_records[j].id # 0
          /\ m_io_records[j].g_fired = 0

\* C3: a timer registered with period 0 by a timer callback is not dispatched
\* by the poll call that is running when it is armed.
C3_ZeroTimerNextPoll == g_same_poll = {}

\* C4: a timer is never dispatched while the clock is below its expiry, and a
\* timer that had expired when a poll call began and was not unregistered has
\* been dispatched when that poll call returns.
C4_TimerExpiry ==
    /\ g_early = {}
    /\ g_missed = {}

\* the timer loop has dispatched a timer that was due when the call began and
\* has passed over a live timer whose expiry is still ahead of the clock
C4_Witness ==
    /\ pc = "timers"
    /\ \E i, j \in TimerIdx :
          /\ i < poll_i /\ j < poll_i
          /\ m_timer_records[i].g_fired = 1
          /\ m_timer_records[i].g_due
          /\ m_timer_records[j].id # 0
          /\ m_timer_records[j].g_fired = 0
          /\ m_timer_records[j].expiry > clock

-----------------------------------------------------------------------------
(* Properties of the stream, checked under StreamSpec *)

StreamIdx == 1 .. Len(streams)

Dirs == {"read", "write"}

\* live I/O handles of direction dir of stream s
LiveIo(s, dir) ==
    {i \in IoIdx : /\ m_io_records[i].id # 0
                   /\ m_io_records[i].user_data = s
                   /\ m_io_records[i].callback = dir \o "_io_callback"}

\* live timeout handles of direction dir of stream s
LiveTimeout(s, dir) ==
    {i \in TimerIdx : /\ m_timer_records[i].id # 0
                      /\ m_timer_records[i].user_data = s
                      /\ m_timer_records[i].callback = dir \o "_timeout_callback"}

C6_SingleOutstanding ==
    /\ g_double = {}
    /\ \A s \in StreamIdx, dir \in Dirs : Cardinality(LiveIo(s, dir)) <= 1
    /\ g_abort.op \in {"app_stream_read", "app_stream_write"} => g_abort.outstanding
    /\ \A s \in StreamIdx :
          /\ (streams[s].g_read_out /\ ~aborted) => LiveIo(s, "read") # {}
          /\ (streams[s].g_write_out /\ ~aborted) => LiveIo(s, "write") # {}

\* a read issued from inside a completion callback was accepted, and a second
\* app_stream_read while it was outstanding aborted the process
C6_Witness ==
    /\ aborted
    /\ g_abort.op = "app_stream_read"
    /\ g_abort.outstanding
    /\ \E s \in StreamIdx : streams[s].g_read_in_cb /\ streams[s].g_read_out

\* C9: after app_stream_destroy no interest of the stream stays registered and
\* no reactor callback runs for the destroyed stream, in the poll pass in which
\* it was destroyed or later; its descriptors stay open.
C9_DestroyCancels ==
    /\ g_uaf = {}
    /\ \A s \in StreamIdx :
          ~streams[s].alive =>
              /\ \A dir \in Dirs : LiveIo(s, dir) = {} /\ LiveTimeout(s, dir) = {}
              /\ {streams[s].read_fd, streams[s].write_fd} \subseteq open_fds

\* a completion callback destroyed the stream while another interest of the
\* stream was reported ready in the same poll call; the I/O loop has passed
\* that interest without dispatching it
C9_Witness ==
    /\ pc = "io"
    /\ \E i \in IoIdx :
          /\ i < poll_i
          /\ m_io_records[i].callback \in {"read_io_callback", "write_io_callback"}
          /\ ~streams[m_io_records[i].user_data].alive
          /\ m_io_records[i].g_unreg
          /\ ~m_io_records[i].g_new
          /\ m_io_pfds[i].revents # {}
          /\ m_io_records[i].g_fired = 0

\* C10: no stream operation reports IO_ERROR or a negative return when the
\* underlying transfer failed with EAGAIN or EINTR.
C10_TransientAbsorbed == g_transient = {}

-----------------------------------------------------------------------------
(* Properties of the service, checked under ServiceSpec / ServiceFairSpec *)

LuaIdx == 1 .. Len(lua)

\* session records from first_session along next
RECURSIVE Chain(_, _)
Chain(si, n) == IF si = 0 \/ n = 0 THEN << >> ELSE <<si>> \o Chain(sessions[si].next, n - 1)

\* every handle id held by the stream, the session object or the service is 0
\* or the id of a registered record when a poll call starts
HeldIdsLive ==
    pc = "idle" =>
        LET S == LiveIds(World) IN
        /\ \A s \in 1 .. Len(streams) :
              {streams[s].read_io_id, streams[s].read_timeout_id,
               streams[s].write_io_id, streams[s].write_timeout_id} \subseteq S \cup {0}
        /\ \A l \in LuaIdx : lua[l].close_id \in S \cup {0}
        /\ service.listen_id \in S \cup {0}

\* C7: session_count never exceeds max_connections and counts the session
\* records linked into the service, each with a live session object; a
\* connection accepted while session_count has reached max_connections is
\* closed without a stream and without a session object being created.
C7_MaxConnections ==
    /\ service.session_count <= service.max_connections
    /\ Len(Chain(service.first_session, Len(sessions) + 1)) = service.session_count
    /\ Cardinality({l \in LuaIdx : lua[l].alive}) <= service.max_connections
    /\ g_overflow = {}

\* the service was full when a connection was accepted in the running poll
\* call: the descriptor is closed again and the session has stayed the only one
C7_Witness ==
    /\ pc = "io"
    /\ g_rejects > 0
    /\ service.session_count = service.max_connections
    /\ Cardinality({l \in LuaIdx : lua[l].alive}) = service.max_connections
    /\ Cardinality(open_fds \cap ClientFds) = service.max_connections
    /\ Len(streams) = service.max_connections

\* session object l exists and a read completion with HUP was delivered to it
HangupSeen(l) == IF l \in LuaIdx THEN lua[l].alive /\ lua[l].g_hup ELSE FALSE

\* session object l exists and a read completion with OK and no byte was
\* delivered to it
EndOfInputSeen(l) == IF l \in LuaIdx THEN lua[l].alive /\ lua[l].g_eof ELSE FALSE

\* session object l has been destroyed, or the process has terminated
Gone(l) == aborted \/ pc = "exited" \/ (IF l \in LuaIdx THEN ~lua[l].alive ELSE FALSE)

\* C8: a session whose read completed with HUP (the peer hung up) is
\* eventually destroyed, or the process has terminated.
C8_HangupLeadsToClose == \A l \in 1 .. MaxConnects : HangupSeen(l) ~> Gone(l)

\* a session whose read completed with OK and no byte is eventually destroyed
\* (or the process has terminated)
EndOfInputLeadsToClose == \A l \in 1 .. MaxConnects : EndOfInputSeen(l) ~> Gone(l)

-----------------------------------------------------------------------------
(* Properties of the Lua console session, checked under ServiceSpec *)

\* live timer records that hold close_session_callback for session object l
CloseTimers(l) ==
    {i \in TimerIdx : /\ m_timer_records[i].id # 0
                      /\ m_timer_records[i].callback = "close_session_callback"
                      /\ m_timer_records[i].user_data = l}

\* C11: app_service_close_session is never called from inside a callback of
\* the I/O dispatch loop (where the stream's completion callbacks and the
\* create callback of the console run); a session for which closure has been
\* requested holds a live timer of period 0 for close_session_callback; and
\* while the I/O dispatch loop of the poll call in which closure was
\* requested runs, the session object and its record are still allocated.
C11_DeferredClose ==
    /\ \A c \in g_closes : c.ctx # "io_cb" /\ c.pc # "io"
    /\ Running =>
          \A l \in LuaIdx :
             /\ (lua[l].alive /\ lua[l].g_reqs > 0) =>
                   \E i \in CloseTimers(l) :
                      /\ m_timer_records[i].id = lua[l].close_id
                      /\ m_timer_records[i].expiry <= clock
             /\ (lua[l].g_req /\ pc = "io") =>
                   lua[l].alive /\ sessions[lua[l].ctx].allocated

\* closure was requested in the I/O dispatch loop of a poll call and the
\* session has been closed by the timer dispatch loop
C11_Witness ==
    /\ Running
    /\ \E c \in g_closes : c.ctx = "timer_cb" /\ c.pc = "timers" /\ c.same
    /\ \E l \in LuaIdx : ~lua[l].alive /\ lua[l].g_reqs > 0 /\ ~sessions[lua[l].ctx].allocated

\* C12: no session is closed by the poll call during which its closure was
\* requested.
C12_CloseNextPoll == \A c \in g_closes : ~c.same

SessionIdx == 1 .. Len(sessions)

\* the service is the Lua console
IsConsole == service.create_session_cb = "session_create_callback"

\* C13: app_service_close_session is called at most once for a session, and
\* exactly once for every session with an object by the time
\* app_service_destroy has returned; the Lua session never uses its context
\* or itself after the release; and app_stream_read is never called for the
\* stream of a session while a read is outstanding on it.
C13_SessionContract ==
    /\ \A si \in SessionIdx : sessions[si].g_closed <= 1
    /\ (pc = "exited" /\ Running) =>
          \A si \in SessionIdx : sessions[si].g_object # 0 => sessions[si].g_closed = 1
    /\ g_deref = {}
    /\ g_double = {}
    /\ g_abort.op # "app_stream_read"

\* the console has served two sessions: one was closed by its close timer
\* after a read completion, the other by app_service_destroy
C13_Witness ==
    /\ pc = "exited" /\ Running /\ IsConsole
    /\ \E l1, l2 \in LuaIdx :
          /\ lua[l1].g_reqs > 0 /\ lua[l1].g_eof /\ sessions[lua[l1].ctx].g_closed = 1
          /\ lua[l2].g_reqs = 0 /\ sessions[lua[l2].ctx].g_closed = 1

\* C14: a session object has at most one live timer for
\* close_session_callback, the one whose id is close_id, and none once it is
\* destroyed; schedule_close called again while the timer is armed leaves it
\* the only one.
C14_OneCloseTimer ==
    \A l \in LuaIdx :
       /\ Cardinality(CloseTimers(l)) <= 1
       /\ \A i \in CloseTimers(l) : lua[l].alive /\ m_timer_records[i].id = lua[l].close_id
       /\ (Running /\ lua[l].alive /\ lua[l].g_reqs > 0) => CloseTimers(l) # {}

\* schedule_close has been called twice for a session and one timer is armed
C14_Witness ==
    \E l \in LuaIdx :
       lua[l].alive /\ lua[l].g_reqs = 2 /\ Cardinality(CloseTimers(l)) = 1

-----------------------------------------------------------------------------
(* Properties of the service and its sessions, checked under ServiceSpec *)

\* session record si has been released
Released(si) == ~sessions[si].allocated

\* C15: whenever the destroy callback is called the stream of the session is
\* not yet destroyed and its socket not yet closed; it is called at most
\* once per session, only for a session whose create callback returned an
\* object, and a released session that had an object has had the call.
C15_DestroyFirst ==
    /\ g_late = {}
    /\ \A si \in SessionIdx :
          /\ sessions[si].g_destroys <= 1
          /\ sessions[si].g_destroys = 1 => sessions[si].g_object # 0
          /\ (Released(si) /\ sessions[si].g_object # 0) => sessions[si].g_destroys = 1

\* one session whose create callback returned NULL has been released without
\* the destroy callback, another with an object has been released with it
C15_Witness ==
    /\ Running
    /\ \E s1, s2 \in SessionIdx :
          /\ Released(s1) /\ sessions[s1].g_object = 0 /\ sessions[s1].g_destroys = 0
          /\ Released(s2) /\ sessions[s2].g_object # 0 /\ sessions[s2].g_destroys = 1
          /\ sessions[s2].stream = 0 /\ sessions[s2].client_socket = NULL

\* live I/O records that hold accept_callback
ListenInterests ==
    {i \in IoIdx : m_io_records[i].id # 0 /\ m_io_records[i].callback = "accept_callback"}

\* every live stream and every open client socket belongs to a session record
NoOrphans ==
    /\ \A s \in 1 .. Len(streams) :
          streams[s].alive => \E si \in SessionIdx : ~Released(si) /\ sessions[si].stream = s
    /\ \A fd \in open_fds \cap ClientFds :
          \E si \in SessionIdx : ~Released(si) /\ sessions[si].client_socket = fd

\* what app_service_destroy leaves: no session, no stream, no socket, no
\* listen interest, and no accept_callback run on the freed service
DestroyDone ==
    /\ ~service.alive /\ ~service.g_stray
    /\ \A si \in SessionIdx :
          /\ Released(si)
          /\ sessions[si].g_object # 0 =>
                sessions[si].g_destroys = 1 /\ sessions[si].g_closed = 1
    /\ service.first_session = 0 /\ service.last_session = 0
    /\ service.session_count = 0
    /\ \A s \in 1 .. Len(streams) : ~streams[s].alive
    /\ open_fds = {}
    /\ ListenInterests = {} /\ service.listen_id = 0

\* C16: once app_service_destroy has been called, every session is closed
\* (destroy callback called once, stream destroyed, socket closed), the
\* session list is empty, the listen interest is unregistered, the listening
\* socket is closed and accept_callback is not dispatched any more.
C16_DestroyCloses == service.g_destroying => DestroyDone

\* the same, for the runs in which app_service_close_session does not fault
DestroyClosesUnlessFault == (service.g_destroying /\ Running) => DestroyDone

\* C17: while the service exists exactly one I/O interest for
\* accept_callback is registered, on the listening socket for APP_EVENT_IN,
\* and its id is listen_id; an execution of accept_callback in which accept
\* failed has changed neither session_count nor the session records nor the
\* session list.
C17_ListenRearmed ==
    /\ (Running /\ service.alive) =>
          /\ Cardinality(ListenInterests) = 1
          /\ \A i \in ListenInterests :
                /\ m_io_records[i].id = service.listen_id
                /\ m_io_pfds[i].fd = service.listen_socket
                /\ m_io_pfds[i].events = {APP_EVENT_IN}
    /\ \A a \in service.g_accepts :
          a.branch = "failed" => a.count = 0 /\ a.records = 0 /\ a.same

\* accept_callback has returned from the branch and the listen interest is
\* registered
RearmedAfter(branch) ==
    /\ Running /\ service.alive /\ pc = "idle"
    /\ \E a \in service.g_accepts : a.branch = branch
    /\ Cardinality(ListenInterests) = 1

\* accept_callback has returned after an event without APP_EVENT_IN, after a
\* failure of accept and after it accepted a session
C17_Witness == RearmedAfter("none") /\ RearmedAfter("failed") /\ RearmedAfter("session")

\* it has returned after a connection at capacity
RearmedWhenFull == RearmedAfter("full")

\* it has returned after the create callback returned NULL
RearmedWhenRefused == RearmedAfter("refused")

\* C18: a session for which app_service_close_session has been called is
\* released, its destroy callback called once, and session_count is the
\* number of sessions with an object that are left, so that the next
\* connection gets a session again.
C18_CapacityReleased ==
    /\ \A si \in SessionIdx :
          sessions[si].g_closed > 0 => Released(si) /\ sessions[si].g_destroys = 1
    /\ service.session_count =
          Cardinality({si \in SessionIdx : ~Released(si) /\ sessions[si].object # 0})

\* the same, for the runs in which app_service_close_session does not fault
CapacityReleasedUnlessFault == Running => C18_CapacityReleased

\* with max_connections sessions closed again, a later connection has got a
\* session
CapacityReused ==
    /\ Running
    /\ \E s1, s2 \in SessionIdx :
          /\ s1 < s2 /\ Released(s1) /\ sessions[s1].g_closed = 1
          /\ ~Released(s2) /\ sessions[s2].object # 0
    /\ service.session_count = service.max_connections

\* C19: a session whose create callback returned NULL is released at once,
\* its stream destroyed and its socket closed, without the destroy callback,
\* without being linked and without a change of session_count.
C19_NullCreate ==
    /\ NoOrphans
    /\ \A si \in SessionIdx :
          sessions[si].g_object = 0 =>
             /\ Released(si) /\ sessions[si].stream = 0 /\ sessions[si].client_socket = NULL
             /\ sessions[si].g_destroys = 0 /\ sessions[si].g_closed = 0
             /\ service.first_session # si /\ service.last_session # si
    /\ \A a \in service.g_accepts : a.branch = "refused" => a.count = 0

\* the same, for the runs in which the assertion of cleanup_session holds
NullCreateUnlessFault == Running => C19_NullCreate

\* a create callback has returned NULL and the process goes on
NullCreated ==
    /\ Running
    /\ \E si \in SessionIdx : sessions[si].g_object = 0 /\ Released(si)

\* the last read of stream s was completed with TIMEOUT and no read has been
\* issued since
TimedOut(s) ==
    /\ streams[s].alive /\ ~streams[s].g_read_out
    /\ streams[s].g_read_done >= 1
    /\ streams[s].g_read_result = APP_RESULT_TIMEOUT

\* C20: a read is completed with TIMEOUT only by its timeout, which is never
\* dispatched while the clock is below its expiry; when the callback has been
\* invoked with TIMEOUT the readiness interest of the read is unregistered,
\* and until a new read is issued no interest of the read is live and the
\* callback is not invoked again, however often the descriptor is readable.
C20_ReadTimeout ==
    /\ g_early = {}
    /\ \A s \in StreamIdx :
          TimedOut(s) =>
             /\ streams[s].g_read_done = 1
             /\ <<s, "read">> \notin g_stale
             /\ LiveIo(s, "read") = {} /\ LiveTimeout(s, "read") = {}
             /\ streams[s].read_io_id = 0 /\ streams[s].read_timeout_id = 0
    /\ \A i \in TimerIdx :
          (m_timer_records[i].callback = "read_timeout_callback"
           /\ m_timer_records[i].g_fired > 0) =>
             /\ m_timer_records[i].g_fired = 1
             /\ m_timer_records[i].expiry <= clock
             /\ ~m_timer_records[i].g_unreg

\* a read timed out, the readiness interest it had was unregistered without
\* having been dispatched, and a later poll call that found the descriptor
\* readable has returned without a callback
C20_Witness ==
    /\ Running /\ pc = "idle" /\ clock > 0
    /\ \E s \in StreamIdx :
          /\ TimedOut(s) /\ streams[s].g_read_late
          /\ streams[s].g_read_done = 1

-----------------------------------------------------------------------------
(* Properties of the reactor, second part, checked under Spec *)

\* C21: an unregister call whose id names no outstanding handle of its table
\* (zero, never issued, already dispatched, already unregistered, collected,
\* or issued to the other table) leaves the ids of every record of both
\* tables as they were, and so do a second and a third call with any id
\* after the first.
C21_UnregisterIdempotent ==
    /\ g_void.same
    /\ \A id \in 0 .. MaxId + 1 :
          /\ HandleIds(app_event_unregister_io(app_event_unregister_io(World, id), id))
                = HandleIds(app_event_unregister_io(World, id))
          /\ HandleIds(app_event_unregister_timer(app_event_unregister_timer(World, id), id))
                = HandleIds(app_event_unregister_timer(World, id))

\* the last void unregister call was of the kind, and a handle is live
VoidCall(kind) ==
    /\ g_void.kind = kind
    /\ \E i \in 1 .. Len(m_io_records) : m_io_records[i].id # 0
    /\ \E i \in 1 .. Len(m_timer_records) : m_timer_records[i].id # 0

\* an id was unregistered a second time while an I/O handle and a timer
\* were live
C21_Witness == VoidCall("twice")

\* the ids issued to the records that are in the tables
IssuedIo == {m_io_records[i].gid : i \in 1 .. Len(m_io_records)}

IssuedTimers == {m_timer_records[i].gid : i \in 1 .. Len(m_timer_records)}

\* every record holds the id it was issued or 0, the ids issued lie in
\* 1 .. m_id_counter, and no two records of the two tables were issued the
\* same id
IdsDistinct ==
    /\ \A i \in 1 .. Len(m_io_records) :
          /\ m_io_records[i].gid \in 1 .. m_id_counter
          /\ m_io_records[i].id \in {0, m_io_records[i].gid}
          /\ \A j \in 1 .. Len(m_io_records) :
                m_io_records[j].gid = m_io_records[i].gid => j = i
    /\ \A i \in 1 .. Len(m_timer_records) :
          /\ m_timer_records[i].gid \in 1 .. m_id_counter
          /\ m_timer_records[i].id \in {0, m_timer_records[i].gid}
          /\ \A j \in 1 .. Len(m_timer_records) :
                m_timer_records[j].gid = m_timer_records[i].gid => j = i
    /\ IssuedIo \cap IssuedTimers = {}

\* a step issues only ids above every id issued before it
IdsFresh ==
    /\ m_id_counter' >= m_id_counter
    /\ \A id \in (IssuedIo' \cup IssuedTimers') \ (IssuedIo \cup IssuedTimers) :
          id > m_id_counter /\ id <= m_id_counter'

\* C22: the ids app_event_register_io and app_event_register_timer return
\* are never 0, each is above every id either of them returned before, and
\* no two records of the two tables hold the same id.
C22_IdsIncrease == [](IdsDistinct) /\ [][IdsFresh]_vars

\* an I/O handle and a timer are live after an earlier handle was collected
C22_Witness ==
    /\ m_id_counter = MaxId
    /\ Len(m_io_records) + Len(m_timer_records) < MaxId
    /\ \E i \in 1 .. Len(m_io_records) : m_io_records[i].id # 0
    /\ \E i \in 1 .. Len(m_timer_records) : m_timer_records[i].id # 0

\* the I/O dispatch loop of the running or of the last poll call has passed
\* record i
IoPassed(i) == pc \in {"timers", "idle"} \/ (pc = "io" /\ i < poll_i)

\* C23: an I/O record the dispatch loop has passed whose descriptor poll(2)
\* reported ready and which no callback unregistered has had its callback
\* invoked, once; a record whose callback was invoked had been reported
\* ready, and a record registered during the call is not invoked by it.
C23_ExactDispatch ==
    \A i \in 1 .. Len(m_io_records) :
        /\ (IoPassed(i) /\ m_io_pfds[i].revents # {} /\ ~m_io_records[i].g_unreg)
              => m_io_records[i].g_fired = 1
        /\ m_io_records[i].g_fired > 0
              => m_io_pfds[i].revents # {} /\ ~m_io_records[i].g_new
        /\ m_io_pfds[i].revents = {} => m_io_records[i].g_fired = 0

\* the I/O loop has ended: one interest was reported ready and invoked, one
\* was not reported ready and is still live, one was reported ready and
\* unregistered by a callback before the loop reached it
C23_Witness ==
    /\ pc = "timers"
    /\ \E i, j, k \in 1 .. Len(m_io_records) :
          /\ m_io_pfds[i].revents # {} /\ m_io_records[i].g_fired = 1
          /\ m_io_pfds[j].revents = {} /\ m_io_records[j].id # 0
          /\ m_io_pfds[k].revents # {} /\ m_io_records[k].g_unreg
          /\ m_io_records[k].g_fired = 0

\* no timer callback has been invoked by the running poll call
NoTimerYet == \A i \in 1 .. Len(m_timer_records) : m_timer_records[i].g_fired = 0

\* a step invokes no I/O callback
NoIoNow ==
    \A i \in 1 .. Len(m_io_records) :
        m_io_records'[i].g_fired = m_io_records[i].g_fired

\* C24: as long as the I/O dispatch loop of a poll call runs no timer
\* callback of that call has been invoked, and once the timer loop runs no
\* I/O callback is invoked, whatever the expiry of the timers.
C24_IoBeforeTimers == [](pc = "io" => NoTimerYet) /\ [][pc = "timers" => NoIoNow]_vars

\* the timer loop has invoked a timer that had expired before the call
\* started, after the I/O loop of the call had invoked an I/O callback
C24_Witness ==
    /\ pc = "timers"
    /\ \E i \in 1 .. Len(m_io_records) : m_io_records[i].g_fired = 1
    /\ \E j \in 1 .. Len(m_timer_records) :
          /\ j < poll_i
          /\ m_timer_records[j].g_fired = 1
          /\ m_timer_records[j].g_due
          /\ m_timer_records[j].expiry < clock

\* the timers registered and not unregistered
LiveTimers == {i \in 1 .. Len(m_timer_records) : m_timer_records[i].id # 0}

\* max(0, expiry - clock) of timer i, capped at INT_MAX
Remaining(i) ==
    IF m_timer_records[i].expiry <= clock THEN 0
    ELSE IF m_timer_records[i].expiry - clock > INT_MAX THEN INT_MAX
    ELSE m_timer_records[i].expiry - clock

\* the wait a poll call that starts now should pass to poll(2)
ExpectedWait(block) ==
    IF ~block THEN 0
    ELSE IF LiveTimers = {} THEN -1
    ELSE CHOOSE r \in {Remaining(i) : i \in LiveTimers} :
             \A i \in LiveTimers : r <= Remaining(i)

\* C25: the wait app_event_poll(block) passes to poll(2) is 0 when block is
\* false, -1 when block is true and no timer is registered, and otherwise
\* the least max(0, expiry - now) over the timers registered and not
\* unregistered, capped at INT_MAX.
C25_PollWait ==
    [][(pc = "idle" /\ pc' = "io") =>
          g_poll'.timeout = ExpectedWait(g_poll'.block)]_vars

\* the running poll call has passed the wait and no callback has run yet
WaitPassed(block, timeout) ==
    /\ pc = "io" /\ poll_i = 1 /\ g_poll.running
    /\ g_poll.block = block /\ g_poll.timeout = timeout

\* a blocking poll call has passed a wait of 0 with one timer expired and
\* another one still ahead of the clock
C25_Witness ==
    /\ WaitPassed(TRUE, 0)
    /\ \E i, j \in LiveTimers :
          m_timer_records[i].expiry < clock /\ m_timer_records[j].expiry > clock

\* a blocking call has passed the time left to the only timer
WaitForTimer == WaitPassed(TRUE, 1) /\ LiveTimers # {}

\* a blocking call has passed -1 with an I/O interest registered
WaitForever == WaitPassed(TRUE, -1) /\ Len(m_io_records) > 0

\* a call that does not block has passed 0 with no timer expired
NoWait ==
    /\ WaitPassed(FALSE, 0)
    /\ LiveTimers # {}
    /\ \A i \in LiveTimers : m_timer_records[i].expiry > clock

-----------------------------------------------------------------------------
(* Properties of the reactor, third part, checked under Spec *)

\* what the program keeps of an I/O record and its pfd, and of a timer record
IoEntry(rec, pfd) == <<rec.id, rec.callback, rec.user_data, pfd.fd, pfd.events>>

TimerEntry(rec) == <<rec.id, rec.callback, rec.user_data, rec.expiry>>

LiveIndices(recs) == {k \in 1 .. Len(recs) : recs[k].id # 0}

\* the tables recs1, pfds1 hold the live records of recs0, each once and with
\* the pfd it had, and nothing else
CompactedIo(recs0, pfds0, recs1, pfds1) ==
    /\ Len(recs1) = Cardinality(LiveIndices(recs0)) /\ Len(pfds1) = Len(recs1)
    /\ \A j \in 1 .. Len(recs1) : recs1[j].id # 0
    /\ \A i \in LiveIndices(recs0) :
          Cardinality({j \in 1 .. Len(recs1) :
                          IoEntry(recs1[j], pfds1[j]) = IoEntry(recs0[i], pfds0[i])}) = 1

CompactedTimers(recs0, recs1) ==
    /\ Len(recs1) = Cardinality(LiveIndices(recs0))
    /\ \A j \in 1 .. Len(recs1) : recs1[j].id # 0
    /\ \A i \in LiveIndices(recs0) :
          Cardinality({j \in 1 .. Len(recs1) : TimerEntry(recs1[j]) = TimerEntry(recs0[i])}) = 1

\* the table recs1 is recs0 with the id of the records that hold id zeroed,
\* of the first one only if first
Zeroed(recs0, recs1, id, first) ==
    /\ Len(recs1) = Len(recs0)
    /\ \A k \in 1 .. Len(recs0) :
          IF recs0[k].id = id /\ (~first \/ \A j \in 1 .. k - 1 : recs0[j].id # id)
          THEN recs1[k] = [recs0[k] EXCEPT !.id = 0, !.g_unreg = recs1[k].g_unreg]
          ELSE recs1[k] = recs0[k]

\* an unregister call made now, with any id, zeroes the id of the record that
\* holds it and changes nothing else of the tables
LazyRemoval ==
    \A id \in 0 .. MaxId + 1 :
        /\ Zeroed(m_io_records, app_event_unregister_io(World, id).m_io_records, id, TRUE)
        /\ app_event_unregister_io(World, id).m_io_pfds = m_io_pfds
        /\ app_event_unregister_io(World, id).m_timer_records = m_timer_records
        /\ Zeroed(m_timer_records, app_event_unregister_timer(World, id).m_timer_records,
                  id, FALSE)
        /\ app_event_unregister_timer(World, id).m_io_records = m_io_records
        /\ app_event_unregister_timer(World, id).m_io_pfds = m_io_pfds

\* a compaction made now removes the records with id 0 and no other
LosslessCompaction ==
    /\ CompactedIo(m_io_records, m_io_pfds, gc_io(World).m_io_records, gc_io(World).m_io_pfds)
    /\ CompactedTimers(m_timer_records, gc_timers(World).m_timer_records)
    /\ gc_io(World).m_timer_records = m_timer_records
    /\ gc_timers(World).m_io_records = m_io_records
    /\ gc_timers(World).m_io_pfds = m_io_pfds

\* the step begins a poll call
PollBegins == pc = "idle" /\ pc' = "io"

\* a step that begins no poll call keeps every record at its place, with its
\* pfd, its id kept or zeroed
RecordsStay ==
    /\ Len(m_io_records') >= Len(m_io_records)
    /\ Len(m_timer_records') >= Len(m_timer_records)
    /\ \A k \in 1 .. Len(m_io_records) :
          /\ m_io_records'[k].id \in {m_io_records[k].id, 0}
          /\ m_io_records'[k].callback = m_io_records[k].callback
          /\ m_io_records'[k].user_data = m_io_records[k].user_data
          /\ m_io_pfds'[k].fd = m_io_pfds[k].fd
          /\ m_io_pfds'[k].events = m_io_pfds[k].events
    /\ \A k \in 1 .. Len(m_timer_records) :
          /\ m_timer_records'[k].id \in {m_timer_records[k].id, 0}
          /\ TimerEntry([m_timer_records'[k] EXCEPT !.id = 0])
                 = TimerEntry([m_timer_records[k] EXCEPT !.id = 0])

\* C34: app_event_unregister_io / app_event_unregister_timer only zero the id
\* of the matching record and leave the record count and the other records
\* as they are; no record leaves the tables but at the start of a poll call,
\* whose compaction removes exactly the records with id 0, keeps every live
\* record once and each live I/O record with its own fd and interest mask.
C34_LazyLossless ==
    /\ [](LazyRemoval /\ LosslessCompaction)
    /\ [][IF PollBegins
          THEN /\ CompactedIo(m_io_records, m_io_pfds, m_io_records', m_io_pfds')
               /\ CompactedTimers(m_timer_records, m_timer_records')
          ELSE RecordsStay]_vars

\* a poll call has begun whose compaction moved the last record, with its
\* pfd, to the place of the first one, which had been unregistered
C34_Witness ==
    /\ pc = "io" /\ poll_i = 1
    /\ Len(m_io_records) = 2
    /\ m_io_records[1].gid = 3 /\ m_io_pfds[1].events = {APP_EVENT_OUT}
    /\ m_io_records[2].gid = 2 /\ m_io_pfds[2].events = {APP_EVENT_IN}

\* a poll call is about to begin with its last two I/O records unregistered
DeadTail ==
    /\ pc = "idle" /\ Len(m_io_records) = 3
    /\ m_io_records[1].id # 0 /\ m_io_records[2].id = 0 /\ m_io_records[3].id = 0
    /\ m_io_records[2].g_unreg /\ m_io_records[3].g_unreg

\* a poll call is about to begin with every timer record dead
DeadTimers ==
    /\ pc = "idle" /\ Len(m_timer_records) = 2
    /\ m_timer_records[1].id = 0 /\ m_timer_records[2].id = 0

-----------------------------------------------------------------------------
(* Properties of the stream, second part, checked under StreamSpec *)

\* a step delivers no completion to the caller of a stream
NoCompletionNow ==
    \A s \in 1 .. Len(streams) :
        /\ streams'[s].g_read_done <= streams[s].g_read_done
        /\ streams'[s].g_write_done <= streams[s].g_write_done

\* C26: the callback of a stream operation is invoked only while a callback
\* dispatched by app_event_poll runs; no step taken between two poll calls,
\* app_stream_read and app_stream_write among them, delivers a completion.
C26_NeverSync == [](g_sync = {}) /\ [][(pc = "idle" /\ pc' = "idle") => NoCompletionNow]_vars

\* between two poll calls a read is outstanding whose timeout had already
\* expired when it was issued, and a write has been completed by a poll call
C26_Witness ==
    /\ Running /\ pc = "idle"
    /\ \E s \in StreamIdx :
          /\ streams[s].g_read_out /\ streams[s].g_read_done = 0
          /\ \E i \in LiveTimeout(s, "read") : m_timer_records[i].expiry <= clock
          /\ streams[s].g_write_done = 1 /\ ~streams[s].g_write_out

\* the operation of direction dir of stream s is outstanding
OpOut(s, dir) == IF dir = "read" THEN streams[s].g_read_out ELSE streams[s].g_write_out

\* C27: a readiness callback whose transfer fails with EAGAIN completes the
\* operation with the result OK and 0 bytes; when the caller's callback is
\* invoked no interest and no timer of the direction is registered, and after
\* the step none is unless the callback has issued a new operation.
C27_AgainIsOkZero ==
    g_again.s # 0 =>
        /\ g_again.result = APP_RESULT_OK /\ g_again.n = 0
        /\ g_again.idle
        /\ OpOut(g_again.s, g_again.dir) \/ LiveHandles(World, g_again.s, g_again.dir) = {}

\* the last step completed an operation of the direction for EAGAIN and the
\* caller has not issued a new one
AgainPassed(dir) ==
    /\ pc = "io" /\ Running
    /\ g_again.s # 0 /\ g_again.dir = dir
    /\ streams[g_again.s].alive
    /\ ~OpOut(g_again.s, dir)
    /\ LiveHandles(World, g_again.s, dir) = {}

C27_Witness ==
    /\ AgainPassed("read")
    /\ streams[g_again.s].g_read_result = APP_RESULT_OK
    /\ streams[g_again.s].g_read_done = 1

WriteAgain == AgainPassed("write") /\ streams[g_again.s].g_write_result = APP_RESULT_OK

\* C28: app_stream_write_sync aborts exactly when a write is outstanding;
\* a call that does not abort leaves the id counter, the ids of all reactor
\* records and every field of every stream as they were.
C28_WriteSync ==
    /\ g_abort.op = "app_stream_write_sync" => g_abort.outstanding
    /\ g_wsync = {}
    /\ \A s \in 1 .. Len(streams), x \in SysFinal \cup {Sys(-1, "EINTR")} :
          streams[s].alive =>
              LET w1 == app_stream_write_sync(World, s, <<x>>)
              IN /\ w1.aborted = (aborted \/ streams[s].g_write_out)
                 /\ ~w1.aborted => ProgramState(w1) = ProgramState(World) /\ w1.ret = x.ret

\* app_stream_write_sync has returned, failing with EAGAIN or EINTR, on a
\* stream whose read is outstanding and whose write direction is idle
C28_Witness ==
    /\ Running /\ pc = "idle"
    /\ "app_stream_write_sync" \in g_transient
    /\ \E s \in 1 .. Len(streams) :
          /\ streams[s].alive
          /\ streams[s].g_read_out /\ LiveHandles(World, s, "read") # {}
          /\ ~streams[s].g_write_out /\ streams[s].g_write_done = 0

\* the process has aborted in app_stream_write_sync
WriteSyncAborted == aborted /\ g_abort.op = "app_stream_write_sync"

-----------------------------------------------------------------------------
(* Properties of the stream, third part, checked under StreamSpec *)

\* C36: between any two steps, and whenever a completion callback is invoked,
\* the I/O id a stream stores for a direction is non-zero exactly when a live
\* I/O record with that id exists, its timeout id is non-zero exactly when a
\* live timer with that id exists, and a non-zero timeout id comes with a
\* non-zero I/O id; both ids of the direction are zero when its completion
\* callback is invoked.
C36_IdsNeverStale == StoredIdsLive(World) /\ g_stale = {}

\* a write with a timeout is outstanding while a read without one has been
\* completed by its readiness callback
C36_Witness ==
    /\ ~aborted
    /\ \E s \in StreamIdx :
          /\ streams[s].alive
          /\ streams[s].write_io_id # 0 /\ streams[s].write_timeout_id # 0
          /\ streams[s].read_io_id = 0 /\ streams[s].read_timeout_id = 0
          /\ streams[s].g_read_done > 0 /\ streams[s].g_read_result = APP_RESULT_OK

\* a write has been completed by its timeout
WriteTimedOut ==
    /\ ~aborted
    /\ \E s \in StreamIdx :
          /\ streams[s].alive /\ streams[s].g_write_result = APP_RESULT_TIMEOUT
          /\ streams[s].write_io_id = 0 /\ streams[s].write_timeout_id = 0

-----------------------------------------------------------------------------
(* Properties of the stream, fourth part, checked under StreamSpec *)

\* app_event_poll is about to dispatch the readiness callback of direction dir
\* of a live stream
Dispatching(dir) ==
    /\ ~aborted /\ pc = "io" /\ poll_i <= Len(m_io_records)
    /\ IoFires(m_io_records[poll_i], m_io_pfds[poll_i])
    /\ m_io_records[poll_i].callback = dir \o "_io_callback"
    /\ streams[m_io_records[poll_i].user_data].alive

\* the result the last completion of direction dir of stream s was given
LastResult(w, s, dir) ==
    IF dir = "read" THEN w.streams[s].g_read_result ELSE w.streams[s].g_write_result

\* the completion the callback about to be dispatched delivers: the outcome
\* t for whatever a transfer would return, and in the world after the
\* dispatch, when the completion callback itself starts nothing
Completes(dir, ready, result, calls) ==
    LET rec == m_io_records[poll_i]
        pfd == m_io_pfds[poll_i]
    IN /\ \A q \in SysSeqs :
             LET t == Transfer(pfd.revents, ready, q)
             IN t.result = result /\ t.n = 0 /\ t.calls = calls
       /\ \A o \in IoChoices(World, rec, pfd) :
             o.op = "none" =>
                 LET w == app_event_poll_io(World, o)
                 IN /\ LastResult(w, rec.user_data, dir) = result
                    /\ w.g_stale = {} /\ w.g_transient = g_transient
                    /\ ~w.aborted

HupFirst(dir, ready) ==
    Dispatching(dir) =>
        LET events == m_io_pfds[poll_i].revents
        IN /\ APP_EVENT_HUP \in events => Completes(dir, ready, APP_RESULT_HUP, 0)
           /\ (APP_EVENT_HUP \notin events /\ ready \notin events) =>
                  Completes(dir, ready, APP_RESULT_IO_ERROR, 0)
           /\ (APP_EVENT_HUP \notin events /\ ready \in events) =>
                  \A q \in SysSeqs : Transfer(events, ready, q).calls > 0

\* C37: a readiness callback that is reported HUP completes with HUP and 0
\* bytes without calling read() or write(), also when IN (read) or OUT
\* (write) is reported with it; one that is reported neither HUP nor the bit
\* of its direction completes with IO_ERROR and 0 bytes.
C37_HupFirst == HupFirst("read", APP_EVENT_IN) /\ HupFirst("write", APP_EVENT_OUT)

\* the record dispatched last, of direction dir, was reported events and its
\* stream was given result
Dispatched(dir, events, result) ==
    /\ ~aborted /\ pc = "io" /\ poll_i > 1 /\ poll_i - 1 <= Len(m_io_records)
    /\ LET rec == m_io_records[poll_i - 1]
           pfd == m_io_pfds[poll_i - 1]
       IN /\ rec.callback = dir \o "_io_callback"
          /\ rec.id = 0 /\ rec.g_fired = 1
          /\ pfd.revents = events
          /\ streams[rec.user_data].alive
          /\ LastResult(World, rec.user_data, dir) = result
          /\ LiveHandles(World, rec.user_data, dir) = {}

\* a read reported IN together with HUP has completed with HUP
C37_Witness == Dispatched("read", {APP_EVENT_IN, APP_EVENT_HUP}, APP_RESULT_HUP)

WriteHupWithOut == Dispatched("write", {APP_EVENT_OUT, APP_EVENT_HUP}, APP_RESULT_HUP)

ReadNeitherBit == Dispatched("read", {APP_EVENT_ERR}, APP_RESULT_IO_ERROR)

WriteNeitherBit == Dispatched("write", {APP_EVENT_ERR}, APP_RESULT_IO_ERROR)

\* with IN alone the read is made
ReadWithIn == Dispatched("read", {APP_EVENT_IN}, APP_RESULT_OK)

-----------------------------------------------------------------------------
(* Properties of the service, second part, checked under ServiceSpec *)

\* the world app_service_new returns in when the calls that open the
\* listening socket have the outcome start
Started(start) ==
    app_service_new(NoPeers, start, MaxConnections,
                    "user_create_callback", "user_destroy_callback")

\* the live interests of accept_callback in the world w
ListenRecords(w) ==
    {i \in 1 .. Len(w.m_io_records) :
        /\ w.m_io_records[i].id # 0
        /\ w.m_io_records[i].callback = "accept_callback"
        /\ w.m_io_pfds[i].fd = w.service.listen_socket
        /\ w.m_io_pfds[i].events = {APP_EVENT_IN}}

\* NULL is returned: no service, no socket open, nothing registered
NullService(w) ==
    /\ w.ret = NULL /\ ~w.service.alive
    /\ w.open_fds = {}
    /\ w.m_io_records = << >> /\ w.m_timer_records = << >>

\* C29: app_service_new returns NULL, with no socket left open, no service
\* and nothing registered with the reactor, when inet_ntop, socket, bind or
\* listen fails, and the process never has a service, a socket or an interest
\* afterwards; when they succeed it returns a service with session_count 0,
\* an empty session list and exactly one live interest of accept_callback,
\* on the listening socket, which is open.
C29_NewOrNull ==
    /\ \A start \in StartOutcomes \ {"ok"} : NullService(Started(start))
    /\ LET w == Started("ok")
       IN /\ w.service.alive /\ ~w.aborted
          /\ w.service.session_count = 0
          /\ w.service.first_session = 0 /\ w.service.last_session = 0
          /\ w.service.listen_socket \in w.open_fds
          /\ Cardinality(ListenRecords(w)) = 1
          /\ \A i \in ListenRecords(w) : w.m_io_records[i].id = w.service.listen_id
          /\ Len(w.m_io_records) = 1
    /\ service.g_start \in StartOutcomes
    /\ service.g_start # "ok" =>
          /\ ~service.alive /\ open_fds = {}
          /\ m_io_records = << >> /\ m_timer_records = << >>
          /\ sessions = << >>

\* bind() has failed and the process has exited
C29_Witness ==
    /\ service.g_start = "bind" /\ pc = "exited"
    /\ ~service.alive /\ open_fds = {}

\* the process as app_service_new leaves it after the outcome start
StartedWith(start) ==
    /\ service.g_start = start /\ pc = "idle" /\ g_connects = 0 /\ clock = 0
    /\ (start = "ok") = (service.alive /\ ListenInterests # {})

-----------------------------------------------------------------------------
(* Properties of app-net-utils.c, checked under NetSpec *)

\* the port text of the string the caller passed: what follows its last ':',
\* all of it when there is none
PortText(str) == SubSeq(str, strrchr(str, Len(str)) + 1, Len(str))

\* the text is a decimal integer, after optional white space and sign, and
\* its value is in 1..65535
ValidPort(text) ==
    LET sign == SkipSpace(text, 1)
        first == IF sign <= Len(text) /\ text[sign] \in {"+", "-"} THEN sign + 1 ELSE sign
        a == Accumulate(text, first, ZeroMag, MagLimit)
    IN /\ first <= Len(text) /\ a.end = Len(text) + 1
       /\ ~(sign <= Len(text) /\ text[sign] = "-")
       /\ a.mag[1] >= 1 /\ \A i \in 2 .. NLimbs : a.mag[i] = 0

\* C30: a call whose port text is not a decimal integer in 1..65535 (empty,
\* zero, negative, too large by any amount, or with characters after the
\* digits) returns APP_RESULT_INVALID_ARG.
C30_PortRange ==
    (net_call.result # "none" /\ ~ValidPort(PortText(net_call.str)))
        => net_call.result = APP_RESULT_INVALID_ARG

\* the same where long has 32 bits and the string fits str_copy
PortRangeNarrow ==
    (/\ net_call.result # "none" /\ ~ValidPort(PortText(net_call.str))
     /\ net_call.long_bits = 32 /\ Len(net_call.str) < StrCopySize)
        => net_call.result = APP_RESULT_INVALID_ARG

\* a port text in 1..65535 is accepted with its value, high byte first
PortAccepted ==
    /\ net_call.result = APP_RESULT_OK
    /\ PortText(net_call.str) = <<"6", "5", "5", "3", "5">>
    /\ net_call.sin_port = <<255, 255>>

\* a port text above 2^32 is rejected where long has 32 bits
LargeRejected ==
    /\ net_call.result = APP_RESULT_INVALID_ARG
    /\ net_call.long_bits = 32 /\ net_call.resolves /\ net_call.default_address
    /\ net_call.str = <<"4", "2", "9", "4", "9", "6", "7", "2", "9", "7">>

\* the string has a ':'
HasColon(str) == strrchr(str, Len(str)) # 0

\* the host of the string: what precedes its last ':'
HostText(str) == SubSeq(str, 1, strrchr(str, Len(str)) - 1)

\* the call has returned and obeys the rules of host and port
HostChosen ==
    /\ ~HasColon(net_call.str) /\ ~net_call.default_address
          => net_call.result = APP_RESULT_INVALID_ARG
    /\ net_call.result = APP_RESULT_OK =>
          net_call.sin_addr = Resolved(IF HasColon(net_call.str) THEN HostText(net_call.str)
                                       ELSE DefaultAddress)
    /\ net_call.result = APP_RESULT_INVALID_ARG =>
          net_call.sin_port = << >> /\ net_call.sin_addr = << >>

\* C31: without a ':' the default address is the host, or the call returns
\* APP_RESULT_INVALID_ARG when there is none; with a ':' the host is the text
\* before the last ':'; a call that returns APP_RESULT_INVALID_ARG has not
\* written to *addr.
C31_HostChoice == net_call.result # "none" => HostChosen

\* the same for the strings that fit str_copy
HostChoiceShort ==
    (net_call.result # "none" /\ Len(net_call.str) < StrCopySize) => HostChosen

\* a string with two ':' is accepted with the host before the last one
LastColonSplits ==
    /\ net_call.result = APP_RESULT_OK
    /\ net_call.str = <<"a", ":", "b", ":", "8", "0">>
    /\ net_call.sin_addr = Resolved(<<"a", ":", "b">>)
    /\ net_call.sin_port = <<0, 80>>

\* a port alone is accepted with the default address
DefaultUsed ==
    /\ net_call.result = APP_RESULT_OK
    /\ ~HasColon(net_call.str) /\ net_call.default_address
    /\ net_call.sin_addr = Resolved(DefaultAddress)

\* a port alone is rejected without a default address, *addr untouched
NoDefaultRejected ==
    /\ net_call.result = APP_RESULT_INVALID_ARG
    /\ net_call.str = <<"1">> /\ ~net_call.default_address /\ net_call.resolves
    /\ net_call.sin_addr = << >> /\ net_call.sin_port = << >>

-----------------------------------------------------------------------------
(* Properties of app-options.c, checked under OptionsSpec *)

\* the struct sockaddr_in of the text "address:port", as inet_pton and htons
\* give it
SockaddrOf(address, port) ==
    [sin_family |-> "AF_INET", sin_port |-> htons(port), sin_addr |-> Resolved(address)]

\* the option of flag is given: "-flag" is an argument the second loop reads
\* as a flag
RECURSIVE GivenFrom(_, _, _)
GivenFrom(argv, flag, i) ==
    IF i > Len(argv) THEN FALSE
    ELSE IF get_flag(argv[i]) = flag THEN TRUE
    ELSE IF get_flag(argv[i]) \in {"c", "f", "g", "l", "m", "r", "a"}
    THEN GivenFrom(argv, flag, i + 2)
    ELSE GivenFrom(argv, flag, i + 1)

Given(flag) == GivenFrom(options.argv, flag, 2)

\* app_options_init has returned
OptionsReady == options.state = "running"

\* C32: after app_options_init, the bind address of an option (-g, -l, -m)
\* that was not given is the default of the help text: 127.0.0.1:3333 (GDB),
\* 127.0.0.1:2323 (Lua), 127.0.0.1:4242 (machine interface).
C32_DefaultAddresses ==
    OptionsReady =>
        /\ ~Given("g") => options.m_gdb_bind_address = SockaddrOf(DefaultAddress, 3333)
        /\ ~Given("l") => options.m_lua_bind_address = SockaddrOf(DefaultAddress, 2323)
        /\ ~Given("m") => options.m_mach_bind_address = SockaddrOf(DefaultAddress, 4242)

\* the same of the GDB and Lua addresses
DefaultAddressesGdbLua ==
    OptionsReady =>
        /\ ~Given("g") => options.m_gdb_bind_address = SockaddrOf(DefaultAddress, 3333)
        /\ ~Given("l") => options.m_lua_bind_address = SockaddrOf(DefaultAddress, 2323)

\* without -m the machine-interface address is as the loader zeroed it
MachAddressZero ==
    (OptionsReady /\ ~Given("m")) => options.m_mach_bind_address = ZeroSockaddr

\* app_options_init has returned for the arguments of an ELF path alone
OnlyElfPath ==
    /\ OptionsReady /\ Len(options.argv) = 2 /\ options.m_elf_path = 2
    /\ options.m_gdb_bind_address = SockaddrOf(DefaultAddress, 3333)
    /\ options.m_mach_bind_address = ZeroSockaddr

\* -m with a port alone sets the machine-interface address at 127.0.0.1
MachGiven ==
    /\ OptionsReady /\ Given("m") /\ ~Given("g")
    /\ options.m_mach_bind_address = SockaddrOf(DefaultAddress, 80)
    /\ options.m_gdb_bind_address = SockaddrOf(DefaultAddress, 3333)

-----------------------------------------------------------------------------
(* Properties of the service, third part, checked under ServiceSpec *)

\* the live reactor records whose callback is given the stream s
StreamRecords(s) ==
    {i \in IoIdx : /\ m_io_records[i].id # 0 /\ m_io_records[i].user_data = s
                   /\ m_io_records[i].callback \in {"read_io_callback", "write_io_callback"}}
    \cup {-i : i \in {k \in TimerIdx :
                 /\ m_timer_records[k].id # 0 /\ m_timer_records[k].user_data = s
                 /\ m_timer_records[k].callback \in {"read_timeout_callback",
                                                    "write_timeout_callback"}}}

\* the live timers whose callback is given the session object l
ObjectTimers(l) ==
    {k \in TimerIdx : /\ m_timer_records[k].id # 0 /\ m_timer_records[k].user_data = l
                      /\ m_timer_records[k].callback = "close_session_callback"}

\* C35: once a session is destroyed no reactor callback is dispatched that is
\* given its stream or its session object (and, through it, its context):
\* none has run, and no live record of the reactor names a destroyed stream
\* or a destroyed session object.
C35_NoCallbackAfterDestroy ==
    /\ g_uaf = {} /\ g_deref = {}
    /\ \A s \in StreamIdx : ~streams[s].alive => StreamRecords(s) = {}
    /\ \A l \in LuaIdx : ~lua[l].alive => ObjectTimers(l) = {}

\* in one poll pass the read of a session was dispatched, which armed the
\* close timer and issued the next read, and the timer closed the session:
\* the interest of the new read is cancelled without having been dispatched
C35_Witness ==
    /\ pc = "timers" /\ ~aborted
    /\ \E l \in LuaIdx, s \in StreamIdx, a, b \in IoIdx, k \in TimerIdx :
          /\ ~lua[l].alive /\ ~streams[s].alive /\ Released(lua[l].ctx)
          /\ m_io_records[a].callback = "read_io_callback" /\ m_io_records[a].user_data = s
          /\ m_io_records[a].g_fired = 1 /\ ~m_io_records[a].g_new
          /\ m_io_records[b].callback = "read_io_callback" /\ m_io_records[b].user_data = s
          /\ m_io_records[b].g_new /\ m_io_records[b].g_unreg
          /\ m_io_records[b].id = 0 /\ m_io_records[b].g_fired = 0
          /\ m_timer_records[k].callback = "close_session_callback"
          /\ m_timer_records[k].user_data = l /\ m_timer_records[k].g_fired = 1

\* app_service_destroy has destroyed a session whose read was outstanding
DestroyedWhileReading ==
    /\ pc = "exited" /\ ~aborted /\ IsConsole
    /\ \E l \in LuaIdx, s \in StreamIdx, b \in IoIdx :
          /\ ~lua[l].alive /\ ~streams[s].alive /\ lua[l].g_reqs = 0
          /\ m_io_records[b].callback = "read_io_callback" /\ m_io_records[b].user_data = s
          /\ m_io_records[b].g_unreg /\ m_io_records[b].id = 0 /\ m_io_records[b].g_fired = 0

-----------------------------------------------------------------------------
(* Properties of the session list, checked under ListSpec *)

\* the list of the service from first_session on
SessionList == Chain(service.first_session, Len(sessions) + 1)

\* first.prev and last.next are null, next and prev are mutually inverse, the
\* list ends at last_session and holds records that are allocated, each once
WellFormed ==
    LET list == SessionList IN
    /\ \A i \in 1 .. Len(list) :
          /\ sessions[list[i]].allocated
          /\ sessions[list[i]].prev = (IF i = 1 THEN 0 ELSE list[i - 1])
          /\ sessions[list[i]].next = (IF i = Len(list) THEN 0 ELSE list[i + 1])
          /\ \A j \in 1 .. Len(list) : list[j] = list[i] => j = i
    /\ service.last_session = (IF list = << >> THEN 0 ELSE list[Len(list)])
    /\ (service.session_count = 0) = (service.first_session = 0 /\ service.last_session = 0)

\* the records of the list are in the order accept_callback created them:
\* record si is the si-th one created
AcceptOrder ==
    \A i, j \in 1 .. Len(SessionList) : i < j => SessionList[i] < SessionList[j]

\* C33: while the service exists its session_count is the number of records
\* of its list, the list is well-formed and its order from first to last is
\* the order in which the sessions were accepted.
C33_SessionList ==
    service.alive =>
        /\ service.session_count = Len(SessionList)
        /\ WellFormed
        /\ AcceptOrder
        /\ \A si \in 1 .. Len(sessions) :
              (\E i \in 1 .. Len(SessionList) : SessionList[i] = si)
                  = (sessions[si].allocated /\ sessions[si].object # 0)

\* the second of three sessions has been closed and a fourth accepted
C33_Witness ==
    /\ service.alive /\ ~aborted
    /\ service.session_count = 3 /\ SessionList = <<1, 3, 4>>
    /\ ~sessions[2].allocated /\ sessions[2].g_closed = 1

\* of two sessions listed the first one is closed
FirstClosed ==
    /\ service.alive /\ ~aborted
    /\ service.session_count = 1 /\ SessionList = <<2>>
    /\ ~sessions[1].allocated /\ sessions[1].g_closed = 1

\* app_service_destroy has closed three sessions
AllClosed ==
    /\ ~service.alive /\ ~aborted /\ service.g_destroying
    /\ service.session_count = 0 /\ service.first_session = 0
    /\ Len(sessions) = 3 /\ \A si \in 1 .. 3 : sessions[si].g_closed = 1

\* of two sessions listed the last one is closed
LastClosed ==
    /\ service.alive /\ ~aborted
    /\ service.session_count = 1 /\ service.first_session = 1
    /\ Len(sessions) = 2 /\ ~sessions[2].allocated /\ sessions[2].g_closed = 1

-----------------------------------------------------------------------------
(* Properties of the Lua console session, second part, checked under       *)
(* ServiceSpec                                                             *)

\* app_event_poll is about to dispatch the readiness callback of the read a
\* console session waits for
ConsoleReads ==
    /\ Dispatching("read")
    /\ Completion(World, "read_io_callback", m_io_records[poll_i].user_data) = "read_callback"

\* a read of stream s is outstanding in w
ReadOutstanding(w, s) ==
    /\ w.streams[s].alive /\ w.streams[s].g_read_out
    /\ w.streams[s].read_io_id # 0
    /\ LiveHandles(w, s, "read") = {w.streams[s].read_io_id}

\* no read of stream s is outstanding in w
ReadIdle(w, s) ==
    /\ w.streams[s].alive /\ ~w.streams[s].g_read_out
    /\ w.streams[s].read_io_id = 0
    /\ LiveHandles(w, s, "read") = {}

\* the live timers of close_session_callback for session object l in w
CloseTimersIn(w, l) ==
    {i \in 1 .. Len(w.m_timer_records) :
        /\ w.m_timer_records[i].id # 0
        /\ w.m_timer_records[i].callback = "close_session_callback"
        /\ w.m_timer_records[i].user_data = l}

\* closure of session object l is scheduled in w
CloseScheduled(w, l) ==
    /\ w.lua[l].alive /\ w.lua[l].close_id # 0
    /\ \E i \in CloseTimersIn(w, l) : w.m_timer_records[i].id = w.lua[l].close_id

\* w0: the world the dispatch starts from; w: the world read_callback leaves
\* for the completion (result, n) of the read of stream s of session object l
AfterCompletion(w0, w, s, l, result, n) ==
    /\ ~w.aborted
    /\ IF result = APP_RESULT_OK /\ n = 0
       THEN /\ CloseScheduled(w, l)
            /\ w.lua[l].g_reqs > 0
            /\ ReadIdle(w, s)
       ELSE /\ ReadOutstanding(w, s)
            /\ result # APP_RESULT_OK =>
                   /\ w.lua[l].close_id = w0.lua[l].close_id
                   /\ w.lua[l].g_reqs = w0.lua[l].g_reqs
                   /\ w.m_timer_records = w0.m_timer_records

\* the world in which the read of stream s has timed out instead
TimedOutInstead(w, s, o) ==
    read_timeout_callback([MarkIo(w, w.poll_i) EXCEPT !.ctx = "io_cb"], s, o)

ZeroBytesCloses(rec, pfd, s, l) ==
    \A o \in IoChoices(World, rec, pfd) :
        LET t == Transfer(pfd.revents, APP_EVENT_IN, o.sys)
            w == app_event_poll_io(World, o)
        IN /\ AfterCompletion(World, w, s, l, t.result, t.n)
           /\ t.errno = "EAGAIN" =>
                  /\ t.result = APP_RESULT_OK /\ t.n = 0
                  /\ [w EXCEPT !.g_again = NoAgain]
                        = app_event_poll_io(World, [o EXCEPT !.sys = <<Sys(0, "none")>>])
           /\ AfterCompletion(World, TimedOutInstead(World, s, o), s, l,
                              APP_RESULT_TIMEOUT, 0)

\* C38: the read callback of a console session schedules the closure of the
\* session and issues no read when the completion is OK with 0 bytes, and
\* issues the next read after every other completion (OK with bytes, HUP,
\* IO_ERROR, TIMEOUT), requesting no closure when the result is not OK; a
\* transfer that fails with EAGAIN leaves the world a transfer of 0 bytes
\* leaves.
C38_ZeroBytesCloses ==
    ConsoleReads =>
        ZeroBytesCloses(m_io_records[poll_i], m_io_pfds[poll_i],
                        m_io_records[poll_i].user_data,
                        streams[m_io_records[poll_i].user_data].read_user_data)

\* the read of a console session has just completed for EAGAIN: its closure
\* is scheduled and no read is outstanding
C38_Witness ==
    /\ ~aborted /\ pc = "io" /\ IsConsole
    /\ g_again.s # 0 /\ g_again.dir = "read"
    /\ \E l \in LuaIdx :
          /\ lua[l].alive /\ lua[l].g_eof /\ ~lua[l].g_hup
          /\ SessionStream(World, l) = g_again.s
          /\ CloseScheduled(World, l)
          /\ ReadIdle(World, g_again.s)

\* a console session waits for input again after a completion with HUP, and
\* no closure has been requested for it
RereadAfterHup ==
    /\ ~aborted /\ pc = "io" /\ IsConsole
    /\ \E l \in LuaIdx :
          /\ lua[l].alive /\ lua[l].g_hup /\ lua[l].g_reqs = 0 /\ lua[l].close_id = 0
          /\ ReadOutstanding(World, SessionStream(World, l))

\* a console session waits for input again after a completion with IO_ERROR
RereadAfterError ==
    /\ ~aborted /\ pc = "io" /\ IsConsole
    /\ \E l \in LuaIdx :
          /\ lua[l].alive /\ lua[l].g_reqs = 0
          /\ streams[SessionStream(World, l)].g_read_result = APP_RESULT_IO_ERROR
          /\ ReadOutstanding(World, SessionStream(World, l))

\* a console session waits for input again after input has arrived
RereadAfterData ==
    /\ ~aborted /\ pc = "io" /\ IsConsole
    /\ \E l \in LuaIdx :
          /\ lua[l].alive /\ ~lua[l].g_eof /\ ~lua[l].g_hup
          /\ streams[SessionStream(World, l)].g_read_result = APP_RESULT_OK
          /\ ReadOutstanding(World, SessionStream(World, l))

-----------------------------------------------------------------------------
(* Properties of the service, fourth part, checked under ServiceSpec *)

\* session records of w from si along next
RECURSIVE ChainIn(_, _, _)
ChainIn(w, si, n) ==
    IF si = 0 \/ n = 0 THEN << >>
    ELSE <<si>> \o ChainIn(w, w.sessions[si].next, n - 1)

ListedIn(w) == ChainIn(w, w.service.first_session, Len(w.sessions) + 1)

\* session record si is in the list of the service
Linked(w, si) == \E k \in 1 .. Len(ListedIn(w)) : ListedIn(w)[k] = si

CountMatches(w) ==
    /\ w.service.session_count >= 0
    /\ Len(ListedIn(w)) = w.service.session_count

\* app_event_poll is about to dispatch accept_callback of the console
ConsoleAccepts ==
    /\ ~aborted /\ pc = "io" /\ poll_i <= Len(m_io_records)
    /\ IoFires(m_io_records[poll_i], m_io_pfds[poll_i])
    /\ m_io_records[poll_i].callback = "accept_callback"
    /\ service.alive /\ IsConsole

\* accept_callback has returned in w with a new session object l for which
\* closure was requested before the create callback returned: the record is
\* linked and counted, and app_service_close_session has not been called
LinkedBeforeClose(w, l) ==
    LET si == w.lua[l].ctx
    IN /\ w.lua[l].alive /\ w.sessions[si].allocated
       /\ w.sessions[si].object = l /\ w.sessions[si].g_closed = 0
       /\ Linked(w, si) /\ w.service.last_session = si
       /\ w.service.session_count = service.session_count + 1
       /\ CountMatches(w)
       /\ w.g_closes = g_closes
       /\ w.pc = "io"
       /\ \E i \in CloseTimersIn(w, l) : w.m_timer_records[i].id = w.lua[l].close_id

AcceptLinksFirst ==
    ConsoleAccepts =>
        \A o \in IoChoices(World, m_io_records[poll_i], m_io_pfds[poll_i]) :
            LET w == app_event_poll_io(World, o)
            IN (~w.aborted /\ Len(w.lua) = Len(lua) + 1 /\ w.lua[Len(w.lua)].close_id # 0)
                  => LinkedBeforeClose(w, Len(w.lua))

\* a session whose close timer is armed is linked
CloseTimersLinked ==
    \A l \in LuaIdx :
        CloseTimers(l) # {} =>
            /\ lua[l].alive /\ sessions[lua[l].ctx].allocated
            /\ sessions[lua[l].ctx].object = l
            /\ Linked(World, lua[l].ctx)

\* app_event_poll is about to dispatch close_session_callback
ConsoleCloses ==
    /\ ~aborted /\ pc = "timers" /\ poll_i <= Len(m_timer_records)
    /\ TimerFires(m_timer_records[poll_i], now)
    /\ m_timer_records[poll_i].callback = "close_session_callback"

\* the call of app_service_close_session the close timer makes unlinks a
\* linked record, unless it faults on the service pointer of the record
CloseUnlinks ==
    ConsoleCloses =>
        LET l == m_timer_records[poll_i].user_data
            si == lua[l].ctx
            w == app_event_poll_timer(World, NoOp)
        IN /\ Linked(World, si) /\ service.session_count >= 1
           /\ IF w.aborted
              THEN /\ sessions[si].service # "service"
                   /\ ListedIn(w) = ListedIn(World)
                   /\ w.service.session_count = service.session_count
              ELSE /\ ~Linked(w, si) /\ ~w.sessions[si].allocated /\ ~w.lua[l].alive
                   /\ w.service.session_count = service.session_count - 1
                   /\ CountMatches(w)

\* C39: when accept_callback returns with a session for which closure was
\* requested while its create callback ran, the record is linked, counted in
\* session_count and not yet closed; the call of app_service_close_session
\* its close timer makes later finds the record linked and removes it and
\* its count; session_count is never negative and always the length of the
\* session list.
C39_CloseAfterLink ==
    /\ AcceptLinksFirst
    /\ CloseTimersLinked
    /\ CloseUnlinks
    /\ CountMatches(World)

\* closure was requested while the create callback of the newest session
\* ran, accept_callback has linked the session, and the close timer has then
\* closed it: the list is empty again
C39_Witness ==
    /\ ~aborted /\ pc = "timers" /\ IsConsole
    /\ Len(lua) = 1 /\ Len(sessions) = 1
    /\ lua[1].g_reqs > 0 /\ ~lua[1].g_eof /\ ~lua[1].g_hup
    /\ Len(streams) = 1 /\ streams[1].g_read_result = "none"
    /\ ~lua[1].alive /\ ~sessions[1].allocated /\ sessions[1].g_closed = 1
    /\ service.session_count = 0 /\ service.first_session = 0

\* accept_callback has returned with the session linked and its closure
\* requested by the create callback
ClosureRequestedAtCreate ==
    /\ ~aborted /\ pc = "io" /\ IsConsole
    /\ Len(lua) = 1 /\ lua[1].alive /\ lua[1].close_id # 0
    /\ Len(streams) = 1 /\ streams[1].g_read_result = "none"
    /\ ~lua[1].g_eof /\ ~lua[1].g_hup
    /\ Linked(World, lua[1].ctx) /\ service.session_count = 1

====
